---- MODULE Spec2Model ----
(***************************************************************************)
(* Laser Feature Visualiser: the numerical core.                           *)
(*   - the .bin profile decoder        (src/src/utils/binParser.js)        *)
(*   - the sparse-to-dense interpolator (src/src/utils/laserInterpolator.js)*)
(*   - the ray/plane triangulation      (src/src/utils/triangulation.js)   *)
(* JavaScript numbers are modelled by exact rationals [n, d] in lowest     *)
(* terms (d > 0); every value the modelled inputs produce is exactly       *)
(* representable as a double (dyadic r/16) or is only compared by sign.    *)
(***************************************************************************)
EXTENDS Integers, Sequences, FiniteSets, TLC

VARIABLES
    src,            \* what the file writer has put into the buffer so far
    buffer,         \* the ArrayBuffer handed to parseBinFile (bytes 0..255)
    pc,             \* position of the decoder: write, loop, returned, thrown, extracted
    header,         \* parseBinFile: const header
    offset,         \* parseBinFile: let offset
    profileIndex,   \* parseBinFile: let profileIndex
    profiles,       \* parseBinFile: const profiles
    result,         \* the BinFileData returned, or the Error thrown
    pixel,          \* the result of profileToPixelCoords on one decoded profile
    ipc,            \* position of interpolateLaserProfile: call, fill, edges, returned
    ipoints,        \* interpolateLaserProfile: the argument points
    itarget,        \* interpolateLaserProfile: the argument targetResolution
    scaledPoints,   \* interpolateLaserProfile: const scaledPoints
    interpolated,   \* interpolateLaserProfile: const interpolated (0-based array)
    ifill,          \* interpolateLaserProfile: the index i of the fill loop
    tpc,            \* position of triangulate2Dto3D: call, loop, returned
    tparams,        \* triangulate2Dto3D: the argument params
    tcolumns,       \* triangulate2Dto3D: the argument pixelColumns
    trows,          \* triangulate2Dto3D: the argument pixelRows
    ti,             \* triangulate2Dto3D: the loop index i
    tpoints,        \* triangulate2Dto3D: const points
    gpc,            \* position of generateDemoProfile: call, loop, returned
    gparams,        \* generateDemoProfile: the argument params
    gdiameter,      \* generateDemoProfile: the argument pipeDiameterMm
    goffsetX,       \* generateDemoProfile: the argument pipeOffsetX
    gnum,           \* generateDemoProfile: the argument numPoints
    gi,             \* generateDemoProfile: the loop index i
    gpoints,        \* generateDemoProfile: const points
    ppc,            \* position of detectPipe: call, ransac, refine, returned
    ppoints,        \* detectPipe: the argument points
    pexpected,      \* detectPipe: the argument expectedDiameter
    poptions,       \* detectPipe: the argument options
    searchIndices,  \* detectPipe: let searchIndices
    iter,           \* detectPipe: the loop counter iter
    bestInliers,    \* detectPipe: let bestInliers
    bestCircle,     \* detectPipe: let bestCircle
    hypotheses,     \* detectPipe: what one iteration computes for each drawn index triple
    presult,        \* detectPipe: the value returned
    wresult,        \* the value returned by the window-scan detectPipe that App imports
    apc,            \* App: the handler that ran last, and how handleFileLoaded ended
    binData,        \* App: the state binData (parsed BinFileData or null)
    fileName,       \* App: the state fileName
    selectedProfile,\* App: the state selectedProfile
    aparams         \* App: the state params

decoderVars == <<src, buffer, pc, header, offset, profileIndex, profiles, result, pixel>>

interpVars == <<ipc, ipoints, itarget, scaledPoints, interpolated, ifill>>

triVars == <<tpc, tparams, tcolumns, trows, ti, tpoints>>

demoVars == <<gpc, gparams, gdiameter, goffsetX, gnum, gi, gpoints>>

pipeVars == <<ppc, ppoints, pexpected, poptions, searchIndices, iter, bestInliers,
              bestCircle, hypotheses, presult, wresult>>

appVars == <<apc, binData, fileName, selectedProfile, aparams>>

vars == <<decoderVars, interpVars, triVars, demoVars, pipeVars, appVars>>

-----------------------------------------------------------------------------
(* Bounds of the model *)

\* bytes written after the header of one file
MaxBody == 16
\* bytes of comment in one profile
MaxCommentLen == 2

-----------------------------------------------------------------------------
(* Numbers *)

Abs(x) == IF x < 0 THEN -x ELSE x

Max(a, b) == IF a >= b THEN a ELSE b

Min(a, b) == IF a <= b THEN a ELSE b

RECURSIVE GCD(_, _)
GCD(a, b) == IF b = 0 THEN a ELSE GCD(b, a % b)

\* the rational n/d (d # 0) in lowest terms with a positive denominator
Rat(n, d) ==
    LET s == IF d < 0 THEN -1 ELSE 1
        g == GCD(Abs(n), Abs(d))
    IN  [n |-> (s * n) \div g, d |-> (s * d) \div g]

-----------------------------------------------------------------------------
(* DataView reads *)

\* view.getUint8(off): the byte at 0-based offset off
GetUint8(buf, off) == buf[off + 1]

\* readUInt16BE(view, off) = view.getUint16(off, false)
ReadUInt16BE(buf, off) == 256 * buf[off + 1] + buf[off + 2]

\* readInt16BE(view, off) = view.getInt16(off, false): two's complement, 16 bits
ReadInt16BE(buf, off) ==
    LET u == ReadUInt16BE(buf, off)
    IN  IF u >= 32768 THEN u - 65536 ELSE u

\* bytes.slice(from, to), 0-based, to exclusive
Slice(buf, from, to) == SubSeq(buf, from + 1, to)

-----------------------------------------------------------------------------
(* Comment text.  The modelled comment bytes are ASCII (below 128) or bytes   *)
(* that are never part of a valid UTF-8 sequence (0xF8..0xFF); a string is a  *)
(* sequence of code points.                                                   *)

REPLACEMENT == 65533

\* new TextDecoder('utf-8', {fatal: false}).decode(bytes)
Utf8Decode(bytes) ==
    [i \in 1..Len(bytes) |-> IF bytes[i] < 128 THEN bytes[i] ELSE REPLACEMENT]

\* .replace(/\0+$/, ''): drop the trailing run of NUL characters
RECURSIVE StripTrailingNuls(_)
StripTrailingNuls(s) ==
    IF s # <<>> /\ s[Len(s)] = 0
    THEN StripTrailingNuls(SubSeq(s, 1, Len(s) - 1))
    ELSE s

RECURSIVE DecimalValue(_)
DecimalValue(s) ==
    IF s = <<>> THEN 0
    ELSE 10 * DecimalValue(SubSeq(s, 1, Len(s) - 1)) + (s[Len(s)] - 48)

\* JSON.parse(s) on strings over NUL, the digit '1' and U+FFFD: a non-empty run
\* of digits '1' is a JSON number, everything else is a SyntaxError
JsonParse(s) ==
    IF s # <<>> /\ \A i \in 1..Len(s) : s[i] = 49
    THEN [ok |-> TRUE, value |-> DecimalValue(s)]
    ELSE [ok |-> FALSE, value |-> 0]

-----------------------------------------------------------------------------
(* parseBinFile *)

MAX_PROFILES == 10000

NoHeader == [format |-> 0, version |-> 0, headerSize |-> 0,
             pointsPerProfile |-> 0, reserved0 |-> 0, reserved1 |-> 0]

\* the header fields read at lines 97-105
ReadHeader(buf) ==
    LET formatAndVersion == ReadUInt16BE(buf, 0)
    IN  [format           |-> formatAndVersion \div 256,
         version          |-> formatAndVersion % 256,
         headerSize       |-> ReadUInt16BE(buf, 2),
         pointsPerProfile |-> ReadUInt16BE(buf, 4),
         reserved0        |-> ReadUInt16BE(buf, 6),
         reserved1        |-> ReadUInt16BE(buf, 8)]

\* a decoder that rejects an unexpected version instead of warning
HeaderErrorStrictVersion(buf) ==
    IF Len(buf) < 12 THEN "too_small"
    ELSE IF ReadHeader(buf).format # 2 THEN "invalid_format"
    ELSE IF ReadHeader(buf).version # 1 THEN "invalid_format"
    ELSE IF ReadHeader(buf).pointsPerProfile = 0 THEN "zero_points"
    ELSE "none"

\* a decoder that takes the ten bytes of header fields as the minimum size
HeaderErrorShortLimit(buf) ==
    IF Len(buf) < 10 THEN "too_small"
    ELSE IF ReadHeader(buf).format # 2 THEN "invalid_format"
    ELSE IF ReadHeader(buf).pointsPerProfile = 0 THEN "zero_points"
    ELSE "none"

\* a decoder that also rejects a header size below the minimum header
HeaderErrorHeaderSize(buf) ==
    IF Len(buf) < 12 THEN "too_small"
    ELSE IF ReadHeader(buf).format # 2 THEN "invalid_format"
    ELSE IF ReadHeader(buf).headerSize < 12 THEN "invalid_format"
    ELSE IF ReadHeader(buf).pointsPerProfile = 0 THEN "zero_points"
    ELSE "none"

\* the throw statements of lines 92-118: which Error, if any, parseBinFile throws
HeaderError(buf) ==
    IF Len(buf) < 12 THEN "too_small"
    ELSE IF ReadHeader(buf).format # 2 THEN "invalid_format"
    ELSE IF ReadHeader(buf).pointsPerProfile = 0 THEN "zero_points"
    ELSE "none"

\* a decoder that treats the raw value as whole pixels
DecodeYOffsetNoScale(yOffsetRaw) == Rat(yOffsetRaw, 1)

\* line 192: yOffset = yOffsetRaw / 16.0 (12.4 fixed point)
DecodeYOffset(yOffsetRaw) == Rat(yOffsetRaw, 16)

\* a point record read with intensity and width exchanged
ReadPointSwapped(buf, off, col) ==
    LET pointOffset == off + col * 4
        yOffsetRaw  == ReadUInt16BE(buf, pointOffset)
        intensity   == GetUint8(buf, pointOffset + 3)
        width       == GetUint8(buf, pointOffset + 2)
    IN  [column |-> col, yOffset |-> DecodeYOffset(yOffsetRaw),
         intensity |-> intensity, width |-> width, valid |-> width > 0]

\* a point record whose column is counted from 1
ReadPointOneBased(buf, off, col) ==
    LET pointOffset == off + col * 4
        yOffsetRaw  == ReadUInt16BE(buf, pointOffset)
        intensity   == GetUint8(buf, pointOffset + 2)
        width       == GetUint8(buf, pointOffset + 3)
    IN  [column |-> col + 1, yOffset |-> DecodeYOffset(yOffsetRaw),
         intensity |-> intensity, width |-> width, valid |-> width > 0]

\* lines 183-208: the point at column col of the profile whose data starts at off
ReadPoint(buf, off, col) ==
    LET pointOffset == off + col * 4
        yOffsetRaw  == ReadUInt16BE(buf, pointOffset)
        intensity   == GetUint8(buf, pointOffset + 2)
        width       == GetUint8(buf, pointOffset + 3)
    IN  [column |-> col, yOffset |-> DecodeYOffset(yOffsetRaw),
         intensity |-> intensity, width |-> width, valid |-> width > 0]

\* lines 141-169: the comment read at off (after the length field)
ReadComment(buf, off, commentLength) ==
    LET commentBytes == Slice(buf, off, off + commentLength)
        rawComment   == StripTrailingNuls(Utf8Decode(commentBytes))
        parsed       == JsonParse(rawComment)
    IN  [rawComment |-> rawComment,
         comment    |-> IF parsed.ok THEN <<parsed.value>> ELSE <<>>]

\* the comment of one iteration: read when commentLength > 0, else '' and null
CommentOf(buf, afterLen, commentLength) ==
    IF commentLength > 0
    THEN ReadComment(buf, afterLen, commentLength)
    ELSE [rawComment |-> <<>>, comment |-> <<>>]

\* a profile that records where its point data starts instead of where it starts
MakeProfileDataStart(buf, P, off, index, commentLength, dataOff) ==
    LET c      == CommentOf(buf, off + 2, commentLength)
        points == [i \in 1..P |-> ReadPoint(buf, dataOff, i - 1)]
    IN  [index       |-> index,
         comment     |-> c.comment,
         rawComment  |-> c.rawComment,
         points      |-> points,
         validCount  |-> Cardinality({i \in 1..P : points[i].valid}),
         startOffset |-> dataOff]

\* lines 212-220: the profile pushed by an iteration entered at off
MakeProfile(buf, P, off, index, commentLength, dataOff) ==
    LET c      == CommentOf(buf, off + 2, commentLength)
        points == [i \in 1..P |-> ReadPoint(buf, dataOff, i - 1)]
    IN  [index       |-> index,
         comment     |-> c.comment,
         rawComment  |-> c.rawComment,
         points      |-> points,
         validCount  |-> Cardinality({i \in 1..P : points[i].valid}),
         startOffset |-> off]

\* a loop body that does not check the point data against the end of the
\* buffer and takes the missing bytes as 0
ReadProfileNoDataCheck(buf, P, off, index) ==
    IF off + 2 > Len(buf) THEN [brk |-> TRUE, offset |-> off]
    ELSE
      LET commentLength == ReadInt16BE(buf, off)
          afterLen      == off + 2
          dataOff       == IF commentLength > 0 THEN afterLen + commentLength ELSE afterLen
      IN  IF commentLength > 0 /\ afterLen + commentLength > Len(buf)
          THEN [brk |-> TRUE, offset |-> afterLen]
          ELSE [brk |-> FALSE,
                profile |-> MakeProfile(buf \o [i \in 1..(P * 4) |-> 0], P, off, index,
                                        commentLength, dataOff),
                offset |-> dataOff + P * 4]

\* a loop body that, for a profile without comment, reads the points from the
\* place of the length field
ReadProfileOverLength(buf, P, off, index) ==
    IF off + 2 > Len(buf) THEN [brk |-> TRUE, offset |-> off]
    ELSE
      LET commentLength   == ReadInt16BE(buf, off)
          afterLen        == off + 2
          dataOff         == IF commentLength > 0 THEN afterLen + commentLength ELSE off
          profileDataSize == P * 4
      IN  IF commentLength > 0 /\ afterLen + commentLength > Len(buf)
          THEN [brk |-> TRUE, offset |-> afterLen]
          ELSE IF dataOff + profileDataSize > Len(buf)
          THEN [brk |-> TRUE, offset |-> dataOff]
          ELSE [brk |-> FALSE,
                profile |-> MakeProfile(buf, P, off, index, commentLength, dataOff),
                offset |-> dataOff + profileDataSize]

\* a loop body that stops at a comment that is not JSON
ReadProfileStrictComment(buf, P, off, index) ==
    IF off + 2 > Len(buf) THEN [brk |-> TRUE, offset |-> off]
    ELSE
      LET commentLength   == ReadInt16BE(buf, off)
          afterLen        == off + 2
          dataOff         == IF commentLength > 0 THEN afterLen + commentLength ELSE afterLen
          profileDataSize == P * 4
      IN  IF commentLength > 0 /\ afterLen + commentLength > Len(buf)
          THEN [brk |-> TRUE, offset |-> afterLen]
          ELSE IF commentLength > 0 /\ CommentOf(buf, afterLen, commentLength).comment = <<>>
          THEN [brk |-> TRUE, offset |-> dataOff]
          ELSE IF dataOff + profileDataSize > Len(buf)
          THEN [brk |-> TRUE, offset |-> dataOff]
          ELSE [brk |-> FALSE,
                profile |-> MakeProfile(buf, P, off, index, commentLength, dataOff),
                offset |-> dataOff + profileDataSize]

\* lines 130-222: one iteration of the while loop, entered with offset = off.
\* brk: the iteration left the loop with break; otherwise the profile pushed.
\* offset is the value of the variable offset when the iteration ends.
\* comment is <<v>> for a parsed value v, <<>> for null.
ReadProfile(buf, P, off, index) ==
    IF off + 2 > Len(buf) THEN [brk |-> TRUE, offset |-> off]
    ELSE
      LET commentLength   == ReadInt16BE(buf, off)
          afterLen        == off + 2
          dataOff         == IF commentLength > 0 THEN afterLen + commentLength ELSE afterLen
          profileDataSize == P * 4
      IN  IF commentLength > 0 /\ afterLen + commentLength > Len(buf)
          THEN [brk |-> TRUE, offset |-> afterLen]
          ELSE IF dataOff + profileDataSize > Len(buf)
          THEN [brk |-> TRUE, offset |-> dataOff]
          ELSE [brk |-> FALSE,
                profile |-> MakeProfile(buf, P, off, index, commentLength, dataOff),
                offset |-> dataOff + profileDataSize]

\* line 129: the loop condition
LoopCond(buf, off, index) == off < Len(buf) /\ index < MAX_PROFILES

\* lines 124-223: the profiles pushed by the loop from (off, index) on
RECURSIVE ParseProfiles(_, _, _, _, _)
ParseProfiles(buf, P, off, index, acc) ==
    IF ~LoopCond(buf, off, index) THEN acc
    ELSE LET r == ReadProfile(buf, P, off, index)
         IN  IF r.brk THEN acc
             ELSE ParseProfiles(buf, P, r.offset, index + 1, Append(acc, r.profile))

\* lines 87-230: parseBinFile as a function of the buffer
ParseBinFile(buf) ==
    IF HeaderError(buf) # "none"
    THEN [threw |-> TRUE, error |-> HeaderError(buf)]
    ELSE LET h  == ReadHeader(buf)
             ps == ParseProfiles(buf, h.pointsPerProfile, h.headerSize, 0, <<>>)
         IN  [threw |-> FALSE, header |-> h, profiles |-> ps, profileCount |-> Len(ps)]

\* lines 240-252: profileToPixelCoords(profile)
RECURSIVE ValidPoints(_)
ValidPoints(points) ==
    IF points = <<>> THEN <<>>
    ELSE LET pt == Head(points)
         IN  IF ~pt.valid THEN ValidPoints(Tail(points))
             ELSE <<pt>> \o ValidPoints(Tail(points))

\* an extraction that keeps the points without a return too
ProfileToPixelCoordsAll(profile) ==
    [pixelColumns |-> [i \in 1..Len(profile.points) |-> profile.points[i].column],
     pixelRows    |-> [i \in 1..Len(profile.points) |-> profile.points[i].yOffset]]

ProfileToPixelCoords(profile) ==
    LET kept == ValidPoints(profile.points)
    IN  [pixelColumns |-> [i \in 1..Len(kept) |-> kept[i].column],
         pixelRows    |-> [i \in 1..Len(kept) |-> kept[i].yOffset]]

-----------------------------------------------------------------------------
(* The file writer: the documented layout (lines 6-22), big-endian *)

Hi(u) == u \div 256
Lo(u) == u % 256

Zeros(n) == [i \in 1..n |-> 0]

\* the bytes of a header: five 16-bit fields, padded to headerSize (at least 12)
EncodeHeader(h) ==
    <<h.format, h.version,
      Hi(h.headerSize), Lo(h.headerSize),
      Hi(h.pointsPerProfile), Lo(h.pointsPerProfile),
      Hi(h.reserved0), Lo(h.reserved0),
      Hi(h.reserved1), Lo(h.reserved1)>> \o Zeros(Max(h.headerSize, 12) - 10)

\* the bytes of one point record
EncodePoint(p) == <<Hi(p.yOffsetRaw), Lo(p.yOffsetRaw), p.intensity, p.width>>

RECURSIVE EncodePoints(_)
EncodePoints(pts) ==
    IF pts = <<>> THEN <<>> ELSE EncodePoint(Head(pts)) \o EncodePoints(Tail(pts))

\* the bytes of one profile: comment length field, comment bytes, point records
EncodeProfile(p) == <<Hi(p.lenField), Lo(p.lenField)>> \o p.bytes \o EncodePoints(p.pts)

\* header samples: [format, version, headerSize, P, reserved0, reserved1]
H(f, v, hs, P, r0, r1) ==
    [format |-> f, version |-> v, headerSize |-> hs,
     pointsPerProfile |-> P, reserved0 |-> r0, reserved1 |-> r1]

HeaderSamples ==
    { H(2, 1, 12, 1, 0, 0), H(2, 1, 12, 2, 0, 0), H(2, 2, 12, 1, 0, 0),
      H(2, 1, 14, 1, 258, 1), H(2, 1, 12, 0, 0, 0), H(2, 7, 12, 0, 0, 0),
      H(3, 1, 12, 1, 0, 0), H(2, 1, 0, 1, 0, 0) }

\* lengths of a file cut inside its header
ShortLengths == {0, 2, 11}

\* point records: no return, one pixel row, the largest raw value
PointSamples ==
    { [yOffsetRaw |-> 0,     intensity |-> 0,   width |-> 0],
      [yOffsetRaw |-> 16,    intensity |-> 7,   width |-> 1],
      [yOffsetRaw |-> 65535, intensity |-> 255, width |-> 255] }

\* comment text bytes: NUL and the digit '1'
CommentAlphabet == {0, 49}

SeqsUpTo(S, n) == UNION { [1..k -> S] : k \in 0..n }

\* comments as written: the length field holds the byte count; one comment is
\* a byte that is never valid UTF-8; an absent comment may also carry a
\* negative length (0xFFFF = -1, 0x8000 = -32768)
CommentSamples ==
    { [lenField |-> Len(b), bytes |-> b] : b \in SeqsUpTo(CommentAlphabet, MaxCommentLen) }
    \cup { [lenField |-> 1, bytes |-> <<255>>],
           [lenField |-> 65535, bytes |-> <<>>], [lenField |-> 32768, bytes |-> <<>>] }

NoSrc == [header |-> H(0, 0, 0, 0, 0, 0), complete |-> FALSE, profs |-> <<>>]
NoResult == [threw |-> FALSE, pending |-> TRUE]
NoPixel == [pixelColumns |-> <<>>, pixelRows |-> <<>>, of |-> 0]

\* the decoder, the interpolator and the triangulation are not in use
DecoderIdle ==
    /\ src = NoSrc
    /\ buffer = <<>>
    /\ pc = "idle"
    /\ header = NoHeader
    /\ offset = 0
    /\ profileIndex = 0
    /\ profiles = <<>>
    /\ result = NoResult
    /\ pixel = NoPixel

InterpIdle ==
    /\ ipc = "idle"
    /\ ipoints = <<>>
    /\ itarget = 0
    /\ scaledPoints = <<>>
    /\ interpolated = <<>>
    /\ ifill = 0

TriIdle ==
    /\ tpc = "idle"
    /\ tparams = [none |-> TRUE]
    /\ tcolumns = <<>>
    /\ trows = <<>>
    /\ ti = 0
    /\ tpoints = <<>>

DemoIdle ==
    /\ gpc = "idle"
    /\ gparams = [none |-> TRUE]
    /\ gdiameter = 0
    /\ goffsetX = 0
    /\ gnum = 0
    /\ gi = 0
    /\ gpoints = <<>>

AppIdle ==
    /\ apc = "idle"
    /\ binData = [none |-> TRUE]
    /\ fileName = [none |-> TRUE]
    /\ selectedProfile = 0
    /\ aparams = [none |-> TRUE]

PipeIdle ==
    /\ ppc = "idle"
    /\ ppoints = <<>>
    /\ pexpected = 0
    /\ poptions = [none |-> TRUE]
    /\ searchIndices = <<>>
    /\ iter = 0
    /\ bestInliers = <<>>
    /\ bestCircle = [none |-> TRUE]
    /\ hypotheses = <<>>
    /\ presult = [none |-> TRUE]
    /\ wresult = [none |-> TRUE]

parserVars == <<header, offset, profileIndex, profiles, result, pixel>>

\* the writer starts a file: the whole header, or a file cut inside it
WriteHeader(h, n) ==
    /\ pc = "empty"
    /\ buffer' = SubSeq(EncodeHeader(h), 1, n)
    /\ src' = [header |-> h, complete |-> (n = Len(EncodeHeader(h))), profs |-> <<>>]
    /\ pc' = "write"
    /\ UNCHANGED parserVars
    /\ UNCHANGED <<interpVars, triVars, demoVars, pipeVars, appVars>>

\* the writer appends one profile of P point records
WriteProfile(c, pts) ==
    /\ pc = "write"
    /\ src.complete
    /\ src.header.pointsPerProfile > 0
    /\ Len(pts) = src.header.pointsPerProfile
    /\ Len(buffer) + Len(EncodeProfile([lenField |-> c.lenField, bytes |-> c.bytes, pts |-> pts]))
          <= Len(EncodeHeader(src.header)) + MaxBody
    /\ buffer' = buffer \o EncodeProfile([lenField |-> c.lenField, bytes |-> c.bytes, pts |-> pts])
    /\ src' = [src EXCEPT !.profs = Append(@, [lenField |-> c.lenField, bytes |-> c.bytes, pts |-> pts])]
    /\ UNCHANGED <<pc, header, offset, profileIndex, profiles, result, pixel>>
    /\ UNCHANGED <<interpVars, triVars, demoVars, pipeVars, appVars>>

\* parseBinFile, lines 88-125: the header is read and validated
ParseHeader ==
    /\ pc = "write"
    /\ IF HeaderError(buffer) # "none"
       THEN /\ pc' = "thrown"
            /\ result' = [threw |-> TRUE, error |-> HeaderError(buffer)]
            /\ UNCHANGED <<header, offset, profileIndex, profiles>>
       ELSE /\ pc' = "loop"
            /\ header' = ReadHeader(buffer)
            /\ offset' = ReadHeader(buffer).headerSize
            /\ profileIndex' = 0
            /\ profiles' = <<>>
            /\ UNCHANGED result
    /\ UNCHANGED <<src, buffer, pixel>>
    /\ UNCHANGED <<interpVars, triVars, demoVars, pipeVars, appVars>>

\* parseBinFile, lines 129-223: one iteration of the while loop
ParseProfile ==
    /\ pc = "loop"
    /\ LoopCond(buffer, offset, profileIndex)
    /\ LET r == ReadProfile(buffer, header.pointsPerProfile, offset, profileIndex)
       IN  IF r.brk
           THEN /\ pc' = "return"
                /\ offset' = r.offset
                /\ UNCHANGED <<profileIndex, profiles>>
           ELSE /\ profiles' = Append(profiles, r.profile)
                /\ offset' = r.offset
                /\ profileIndex' = profileIndex + 1
                /\ UNCHANGED pc
    /\ UNCHANGED <<src, buffer, header, result, pixel>>
    /\ UNCHANGED <<interpVars, triVars, demoVars, pipeVars, appVars>>

\* parseBinFile, line 129: the loop condition fails
ParseLoopExit ==
    /\ pc = "loop"
    /\ ~LoopCond(buffer, offset, profileIndex)
    /\ pc' = "return"
    /\ UNCHANGED <<src, buffer, header, offset, profileIndex, profiles, result, pixel>>
    /\ UNCHANGED <<interpVars, triVars, demoVars, pipeVars, appVars>>

\* parseBinFile, lines 225-229: the BinFileData is returned
ParseReturn ==
    /\ pc = "return"
    /\ result' = [threw |-> FALSE, header |-> header, profiles |-> profiles,
                  profileCount |-> Len(profiles)]
    /\ pc' = "returned"
    /\ UNCHANGED <<src, buffer, header, offset, profileIndex, profiles, pixel>>
    /\ UNCHANGED <<interpVars, triVars, demoVars, pipeVars, appVars>>

\* profileToPixelCoords on the k-th decoded profile (App.jsx line 93)
ExtractPixelCoords(k) ==
    /\ pc = "returned"
    /\ k \in 1..Len(result.profiles)
    /\ pixel' = [pixelColumns |-> ProfileToPixelCoords(result.profiles[k]).pixelColumns,
                 pixelRows    |-> ProfileToPixelCoords(result.profiles[k]).pixelRows,
                 of           |-> k]
    /\ pc' = "extracted"
    /\ UNCHANGED <<src, buffer, header, offset, profileIndex, profiles, result>>
    /\ UNCHANGED <<interpVars, triVars, demoVars, pipeVars, appVars>>

Init ==
    /\ AppIdle
    /\ src = NoSrc
    /\ buffer = <<>>
    /\ pc = "empty"
    /\ header = NoHeader
    /\ offset = 0
    /\ profileIndex = 0
    /\ profiles = <<>>
    /\ result = NoResult
    /\ pixel = NoPixel
    /\ InterpIdle
    /\ TriIdle
    /\ DemoIdle
    /\ PipeIdle

Next ==
    \/ \E h \in HeaderSamples : \E n \in ShortLengths \cup {Len(EncodeHeader(h))} : WriteHeader(h, n)
    \/ \E c \in CommentSamples : \E pts \in SeqsUpTo(PointSamples, 2) : WriteProfile(c, pts)
    \/ ParseHeader
    \/ ParseProfile
    \/ ParseLoopExit
    \/ ParseReturn
    \/ \E k \in 1..3 : ExtractPixelCoords(k)

Spec == Init /\ [][Next]_vars

-----------------------------------------------------------------------------
(* Properties of the decoder *)

\* parseBinFile has run to its end on the buffer
Parsed == pc \in {"thrown", "returned", "extracted"}

\* the header checks of parseBinFile are behind
HeaderChecked == pc \notin {"empty", "write"}

\* the writer produced a whole file in the documented layout whose header
\* parseBinFile accepts
Documented ==
    /\ src.complete
    /\ src.header.format = 2
    /\ src.header.headerSize >= 12
    /\ src.header.pointsPerProfile > 0

\* the comment of the k-th written profile is text in the documented encoding
TextComment(k) ==
    /\ src.profs[k].lenField = Len(src.profs[k].bytes)
    /\ \A i \in 1..Len(src.profs[k].bytes) : src.profs[k].bytes[i] < 128

\* bytes of the k-th written profile in the file
WrittenSize(k) == 2 + Len(src.profs[k].bytes) + 4 * Len(src.profs[k].pts)

RECURSIVE WrittenEnd(_)
\* offset just after the k-th written profile
WrittenEnd(k) ==
    IF k = 0 THEN Max(src.header.headerSize, 12) ELSE WrittenEnd(k - 1) + WrittenSize(k)

\* the written profiles that lie wholly in the first L bytes of the file
WrittenWithin(L) == Cardinality({k \in 1..Len(src.profs) : WrittenEnd(k) <= L})

\* C1: parseBinFile throws, and yields no BinFileData and no profile, whenever
\* the buffer has fewer than 12 bytes and whenever the format tag (the first
\* byte) is not 2.
C1_ShortOrWrongFormatThrows ==
    (HeaderChecked /\ (Len(buffer) < 12 \/ buffer[1] # 2))
        => /\ pc = "thrown"
           /\ result.threw
           /\ result.error \in {"too_small", "invalid_format"}
           /\ "profiles" \notin DOMAIN result
           /\ profiles = <<>>

C1_Witness ==
    /\ pc = "thrown"
    /\ Len(buffer) >= 12
    /\ buffer[1] # 2
    /\ src.profs # <<>>

\* C2 as stated: every buffer of at least 12 bytes with format tag 2 is decoded
\* without a throw, whatever the other header fields are.
C2_ValidTagNeverThrows ==
    (HeaderChecked /\ Len(buffer) >= 12 /\ buffer[1] = 2) => pc # "thrown"

\* C2 amended: every buffer of at least 12 bytes with format tag 2 and a
\* non-zero pointsPerProfile is decoded without a throw and yields a
\* BinFileData, whatever headerSize, the reserved fields and the body are; so
\* is every such buffer cut anywhere after its 12th byte.
C2_ValidHeaderNeverThrows ==
    (HeaderChecked /\ Len(buffer) >= 12 /\ buffer[1] = 2
       /\ ReadUInt16BE(buffer, 4) # 0)
        => /\ pc # "thrown"
           /\ Parsed => /\ ~result.threw
                        /\ result.profileCount = Len(result.profiles)
                        /\ \A L \in 12..Len(buffer) :
                              ~ParseBinFile(SubSeq(buffer, 1, L)).threw

C2_Witness ==
    /\ pc = "returned"
    /\ src.header.headerSize < 12
    /\ src.header.reserved0 = 0
    /\ src.profs # <<>>
    /\ result.profileCount = 0

\* the versions a buffer is compared under
Versions == {0, 1, 2, 255}

\* the header without its version field
HeaderButVersion(h) ==
    <<h.format, h.headerSize, h.pointsPerProfile, h.reserved0, h.reserved1>>

C4_TruncationPolicy ==
    (pc = "returned" /\ Documented)
        => \A L \in 12..Len(buffer) :
              LET cut == ParseBinFile(SubSeq(buffer, 1, L))
              IN  /\ ~cut.threw
                  /\ cut.profileCount = WrittenWithin(L)
                  /\ cut.profiles = SubSeq(result.profiles, 1, WrittenWithin(L))

C4_Witness ==
    /\ pc = "returned"
    /\ Documented
    /\ Len(src.profs) = 2
    /\ Len(src.profs[2].bytes) = 2
    /\ ParseBinFile(SubSeq(buffer, 1, WrittenEnd(1) + 3)).profileCount = 1
    /\ ParseBinFile(SubSeq(buffer, 1, Len(buffer) - 1)).profileCount = 1
    /\ result.profileCount = 2

\* the decoded points of profile k are the written ones: yOffset = raw/16,
\* same intensity and width
PointsRoundTrip(k) ==
    /\ Len(result.profiles[k].points) = Len(src.profs[k].pts)
    /\ \A i \in 1..Len(src.profs[k].pts) :
          LET w == src.profs[k].pts[i]
              d == result.profiles[k].points[i]
          IN  /\ d.yOffset.n * 16 = w.yOffsetRaw * d.yOffset.d
              /\ d.intensity = w.intensity
              /\ d.width = w.width

\* every written comment is text in the documented encoding
AllTextComments == \A k \in 1..Len(src.profs) : TextComment(k)

\* C5 as stated: a documented file of N profiles decodes to N profiles in
\* order with yOffset = raw/16, the same intensity and width, and rawComment
\* equal to the comment text written.
C5_RoundTripExactComment ==
    (pc = "returned" /\ Documented /\ AllTextComments)
        => /\ result.profileCount = Len(src.profs)
           /\ \A k \in 1..Len(src.profs) :
                 /\ PointsRoundTrip(k)
                 /\ result.profiles[k].rawComment = src.profs[k].bytes

\* s is text without its trailing run of NUL characters
IsNulStripped(s, text) ==
    /\ Len(s) <= Len(text)
    /\ s = SubSeq(text, 1, Len(s))
    /\ s # <<>> => s[Len(s)] # 0
    /\ \A i \in (Len(s) + 1)..Len(text) : text[i] = 0

\* C5 amended: a documented file of N profiles decodes to N profiles in order
\* with yOffset = raw/16, the same intensity and width, and rawComment equal
\* to the comment text written without its trailing NUL characters (the text
\* itself when it does not end in NUL).
C5_RoundTrip ==
    (pc = "returned" /\ Documented /\ AllTextComments)
        => /\ result.profileCount = Len(src.profs)
           /\ \A k \in 1..Len(src.profs) :
                 /\ result.profiles[k].index = k - 1
                 /\ PointsRoundTrip(k)
                 /\ IsNulStripped(result.profiles[k].rawComment, src.profs[k].bytes)

C5_Witness ==
    /\ pc = "returned"
    /\ Documented
    /\ AllTextComments
    /\ Len(src.profs) = 2
    /\ src.header.pointsPerProfile = 1
    /\ src.profs[1].bytes = <<49, 0>>
    /\ result.profiles[1].rawComment = <<49>>
    /\ src.profs[2].bytes = <<0, 49>>
    /\ result.profiles[2].rawComment = <<0, 49>>

\* C6: the yOffset decoded from a raw 16-bit value r written big-endian is
\* exactly r/16: 16 * yOffset = r, 0 gives 0, 16 gives 1, 65535 gives
\* 65535/16 = 4095.9375, and 0 <= yOffset <= 4095.9375.
C6_FixedPoint ==
    (Parsed /\ ~result.threw)
        => \A k \in 1..Len(result.profiles) : \A i \in 1..Len(result.profiles[k].points) :
              LET y == result.profiles[k].points[i].yOffset
                  r == 256 * buffer[WrittenEnd(k) - 4 * (Len(src.profs[k].pts) - i + 1) + 1]
                         + buffer[WrittenEnd(k) - 4 * (Len(src.profs[k].pts) - i + 1) + 2]
              IN  /\ r = src.profs[k].pts[i].yOffsetRaw
                  /\ y.d > 0
                  /\ y.n * 16 = r * y.d
                  /\ y.n >= 0
                  /\ y.n * 16 <= 65535 * y.d
                  /\ r = 0 => y = [n |-> 0, d |-> 1]
                  /\ r = 16 => y = [n |-> 1, d |-> 1]
                  /\ r = 65535 => y = [n |-> 65535, d |-> 16]

C6_Witness ==
    /\ pc = "returned"
    /\ result.profileCount = 1
    /\ Len(result.profiles[1].points) = 2
    /\ result.profiles[1].points[1].yOffset = [n |-> 65535, d |-> 16]
    /\ result.profiles[1].points[2].yOffset = [n |-> 1, d |-> 1]

\* C7: profileToPixelCoords on a decoded profile gives two arrays of the same
\* length, the profile's validCount, holding exactly the (column, yOffset)
\* pairs of the points with valid = true, in strictly ascending column order.
C7_PixelCoordsAreTheValidPoints ==
    (pc = "extracted")
        => LET profile == result.profiles[pixel.of]
               cols    == pixel.pixelColumns
               rows    == pixel.pixelRows
           IN  /\ Len(cols) = Len(rows)
               /\ Len(cols) = profile.validCount
               /\ { <<cols[j], rows[j]>> : j \in 1..Len(cols) }
                    = { <<profile.points[i].column, profile.points[i].yOffset>> :
                           i \in {m \in 1..Len(profile.points) : profile.points[m].valid} }
               /\ \A j \in 1..Len(cols) :
                     \E i \in 1..Len(profile.points) :
                        /\ profile.points[i].column = cols[j]
                        /\ profile.points[i].width > 0
               /\ \A j \in 1..(Len(cols) - 1) : cols[j] < cols[j + 1]

C7_Witness ==
    /\ pc = "extracted"
    /\ Len(result.profiles[pixel.of].points) = 2
    /\ ~result.profiles[pixel.of].points[1].valid
    /\ result.profiles[pixel.of].points[2].valid
    /\ pixel.pixelColumns = <<1>>
    /\ pixel.pixelRows = <<[n |-> 1, d |-> 1]>>

\* the loop of parseBinFile has been entered
Decoding == pc \in {"loop", "return", "returned", "extracted"}

\* the comment length field of the k-th decoded profile
CommentLengthOf(k) == ReadInt16BE(buffer, profiles[k].startOffset)

\* the bytes the k-th decoded profile takes: length field, comment, P points
ConsumedBy(k) == 2 + Max(CommentLengthOf(k), 0) + 4 * header.pointsPerProfile

\* the point record i of the profile whose points start at dataOff, from the bytes
PointAt(dataOff, i) ==
    [yOffsetRaw |-> 256 * buffer[dataOff + 4 * (i - 1) + 1] + buffer[dataOff + 4 * (i - 1) + 2],
     intensity  |-> buffer[dataOff + 4 * (i - 1) + 3],
     width      |-> buffer[dataOff + 4 * (i - 1) + 4]]

\* C17: the first decoded profile starts at headerSize; a profile with comment
\* length C takes 2 + max(C, 0) + 4P bytes, its points are the 4P bytes at its
\* end, and the next profile (or the read offset) starts right after it; a
\* comment length C <= 0 leaves rawComment empty and comment null.
C17_ContiguousLayout ==
    Decoding
        => /\ profiles # <<>> => profiles[1].startOffset = ReadUInt16BE(buffer, 2)
           /\ \A k \in 1..(Len(profiles) - 1) :
                 profiles[k + 1].startOffset = profiles[k].startOffset + ConsumedBy(k)
           /\ (pc = "loop" /\ profiles # <<>>)
                 => offset = profiles[Len(profiles)].startOffset + ConsumedBy(Len(profiles))
           /\ \A k \in 1..Len(profiles) :
                 /\ profiles[k].startOffset + ConsumedBy(k) <= Len(buffer)
                 /\ CommentLengthOf(k) <= 0
                       => profiles[k].rawComment = <<>> /\ profiles[k].comment = <<>>
                 /\ \A i \in 1..Len(profiles[k].points) :
                       LET w == PointAt(profiles[k].startOffset + 2 + Max(CommentLengthOf(k), 0), i)
                           d == profiles[k].points[i]
                       IN  /\ d.yOffset = Rat(w.yOffsetRaw, 16)
                           /\ d.intensity = w.intensity
                           /\ d.width = w.width

C17_Witness ==
    /\ pc = "returned"
    /\ Len(profiles) = 2
    /\ CommentLengthOf(1) = 2
    /\ CommentLengthOf(2) < 0
    /\ profiles[1].startOffset = 12
    /\ profiles[2].startOffset = 20
    /\ Len(buffer) = 26

\* C18: every decoded profile holds exactly pointsPerProfile points, the point
\* at position i has column i (0 <= column < P) and valid exactly when
\* width > 0, validCount counts the points with width > 0, index is the
\* position in the sequence, and profileCount is the length of the sequence.
C18_ProfileShape ==
    (Parsed /\ ~result.threw)
        => /\ result.profileCount = Len(result.profiles)
           /\ \A k \in 1..Len(result.profiles) :
                 LET p == result.profiles[k]
                     P == result.header.pointsPerProfile
                 IN  /\ p.index = k - 1
                     /\ Len(p.points) = P
                     /\ \A i \in 1..Len(p.points) :
                           /\ p.points[i].column = i - 1
                           /\ p.points[i].column >= 0
                           /\ p.points[i].column < P
                           /\ p.points[i].valid <=> (p.points[i].width > 0)
                     /\ p.validCount = Cardinality({i \in 1..Len(p.points) : p.points[i].width > 0})

C18_Witness ==
    /\ pc = "returned"
    /\ result.profileCount = 1
    /\ result.header.pointsPerProfile = 2
    /\ result.profiles[1].validCount = 1
    /\ result.profiles[1].points[1].width = 0
    /\ result.profiles[1].points[2].column = 1
    /\ result.profiles[1].points[2].valid

\* comments of the files decoded to their end: none, a JSON number, a byte
\* that is not UTF-8, and negative lengths
TermComments == { c \in CommentSamples : c.bytes \in {<<>>, <<49>>, <<255>>} }

TermPoints == SeqsUpTo({[yOffsetRaw |-> 16, intensity |-> 7, width |-> 1]}, 2)

NextTerm ==
    \/ \E h \in HeaderSamples : \E n \in ShortLengths \cup {Len(EncodeHeader(h))} : WriteHeader(h, n)
    \/ \E c \in TermComments : \E pts \in TermPoints : WriteProfile(c, pts)
    \/ ParseHeader
    \/ ParseProfile
    \/ ParseLoopExit
    \/ ParseReturn

\* parseBinFile is synchronous: once its loop is entered it runs on to its return
SpecTerm ==
    /\ Init
    /\ [][NextTerm]_vars
    /\ WF_vars(ParseProfile \/ ParseLoopExit \/ ParseReturn)

WithJsonComment(k) ==
    [i \in 1..Len(buffer) |->
        IF i > WrittenEnd(k - 1) + 2 /\ i <= WrittenEnd(k - 1) + 2 + Len(src.profs[k].bytes)
        THEN 49 ELSE buffer[i]]

\* C20: in a documented file every profile is decoded, also one whose comment
\* (C > 0 bytes) is not JSON: that profile has comment null, rawComment the
\* decoded text without trailing NULs, its points from the bytes after the
\* comment, and all the other profiles are what they are when the comment is
\* JSON of the same length.
C20_BadCommentIsNotFatal ==
    (pc = "returned" /\ Documented)
        => /\ result.profileCount = Len(src.profs)
           /\ \A k \in 1..Len(src.profs) :
                 LET w    == src.profs[k]
                     d    == result.profiles[k]
                     text == StripTrailingNuls(Utf8Decode(w.bytes))
                 IN  (w.lenField = Len(w.bytes) /\ Len(w.bytes) > 0 /\ ~JsonParse(text).ok)
                        => /\ d.comment = <<>>
                           /\ d.rawComment = text
                           /\ PointsRoundTrip(k)
                           /\ d.points = [i \in 1..src.header.pointsPerProfile |->
                                            ReadPoint(buffer, WrittenEnd(k - 1) + 2 + Len(w.bytes), i - 1)]
                           /\ LET other == ParseBinFile(WithJsonComment(k))
                              IN  /\ other.profileCount = result.profileCount
                                  /\ other.profiles[k].comment # <<>>
                                  /\ other.profiles[k].points = d.points
                                  /\ other.profiles[k].startOffset = d.startOffset
                                  /\ \A j \in 1..Len(src.profs) :
                                        j # k => other.profiles[j] = result.profiles[j]

C20_Witness ==
    /\ pc = "returned"
    /\ Documented
    /\ Len(src.profs) = 2
    /\ src.profs[1].bytes = <<255>>
    /\ result.profiles[1].rawComment = <<REPLACEMENT>>
    /\ result.profiles[1].comment = <<>>
    /\ src.profs[2].bytes = <<0, 49>>
    /\ result.profiles[2].rawComment = <<0, 49>>
    /\ result.profileCount = 2

-----------------------------------------------------------------------------
(* Rational arithmetic for the interpolated values *)

RatOf(k) == [n |-> k, d |-> 1]

\* sums and products cancel common factors before multiplying
RatAdd(x, y) ==
    LET g == GCD(x.d, y.d)
    IN  Rat(x.n * (y.d \div g) + y.n * (x.d \div g), (x.d \div g) * y.d)

RatSub(x, y) ==
    LET g == GCD(x.d, y.d)
    IN  Rat(x.n * (y.d \div g) - y.n * (x.d \div g), (x.d \div g) * y.d)

RatMul(x, y) ==
    LET g == GCD(Abs(x.n), y.d)
        h == GCD(Abs(y.n), x.d)
    IN  Rat((x.n \div g) * (y.n \div h), (x.d \div h) * (y.d \div g))

RatHalf(x) == Rat(x.n, 2 * x.d)

\* Math.round(x): the integer nearest to x, halves rounded up
MathRound(x) == (2 * x.n + x.d) \div (2 * x.d)

-----------------------------------------------------------------------------
(* interpolateLaserProfile *)

\* bounds of the interpolator's inputs
MaxPoints == 3
MaxColumn == 3

\* a slot of new Array(targetResolution) that was never assigned
Hole == [hole |-> TRUE]

\* a column value of scaledPoints: Math.round may give NaN
NaNColumn == [nan |-> TRUE, v |-> 0]
Column(v) == [nan |-> FALSE, v |-> v]

\* line 22: points.filter(p => p.valid)
RECURSIVE FilterValid(_)
FilterValid(points) ==
    IF points = <<>> THEN <<>>
    ELSE IF Head(points).valid THEN <<Head(points)>> \o FilterValid(Tail(points))
    ELSE FilterValid(Tail(points))

\* line 28: sort((a, b) => a.column - b.column), a stable sort
RECURSIVE InsertByColumn(_, _)
InsertByColumn(sorted, p) ==
    IF sorted = <<>> THEN <<p>>
    ELSE IF sorted[Len(sorted)].column <= p.column THEN Append(sorted, p)
    ELSE Append(InsertByColumn(SubSeq(sorted, 1, Len(sorted) - 1), p), sorted[Len(sorted)])

RECURSIVE SortByColumn(_)
SortByColumn(points) ==
    IF points = <<>> THEN <<>>
    ELSE InsertByColumn(SortByColumn(SubSeq(points, 1, Len(points) - 1)), points[Len(points)])

\* line 31: Math.max(...validPoints.map(p => p.column))
RECURSIVE MaxColumnOf(_)
MaxColumnOf(points) ==
    IF Len(points) = 1 THEN points[1].column
    ELSE Max(points[1].column, MaxColumnOf(Tail(points)))

\* lines 31, 34: Math.round(p.column * (targetResolution / maxColumn)) for
\* columns 0..maxColumn; targetResolution / 0 is Infinity and 0 * Infinity NaN
ScaleColumn(column, targetResolution, maxColumn) ==
    IF maxColumn = 0 THEN NaNColumn
    ELSE Column(MathRound(Rat(column * targetResolution, maxColumn)))

\* lines 22-36: scaledPoints
ScaledPoints(points, targetResolution) ==
    LET validPoints == SortByColumn(FilterValid(points))
        maxColumn   == MaxColumnOf(validPoints)
    IN  [i \in 1..Len(validPoints) |->
            [column    |-> ScaleColumn(validPoints[i].column, targetResolution, maxColumn),
             yOffset   |-> validPoints[i].yOffset,
             intensity |-> validPoints[i].intensity,
             width     |-> validPoints[i].width,
             valid     |-> validPoints[i].valid]]

\* a sample stored in the output array
Sample(column, yOffset, intensity, width, valid) ==
    [hole |-> FALSE, column |-> column, yOffset |-> yOffset,
     intensity |-> intensity, width |-> width, valid |-> valid]

\* p.column >= 0 && p.column < targetResolution (false for NaN)
InRange(c, targetResolution) == ~c.nan /\ c.v >= 0 /\ c.v < targetResolution

\* lines 39-46: new Array(targetResolution) with the scaled points placed, in
\* order (a later point replaces an earlier one in the same slot)
RECURSIVE PlacePoints(_, _, _)
PlacePoints(arr, scaled, targetResolution) ==
    IF scaled = <<>> THEN arr
    ELSE LET p == Head(scaled)
             placed == IF InRange(p.column, targetResolution)
                       THEN [arr EXCEPT ![p.column.v + 1] =
                                Sample(p.column.v, p.yOffset, p.intensity, p.width, p.valid)]
                       ELSE arr
         IN  PlacePoints(placed, Tail(scaled), targetResolution)

\* lines 58-84: the sample computed for column col between p1 = scaled[i + 1]
\* and p2 = scaled[i + 2] (i is the 0-based loop index); the tangents read
\* the argument array points
FillSample(points, scaled, i, col) ==
    LET p1  == scaled[i + 1]
        p2  == scaled[i + 2]
        t   == Rat(col - p1.column.v, p2.column.v - p1.column.v)
        t2  == RatMul(t, t)
        t3  == RatMul(t2, t)
        h00 == RatAdd(RatSub(RatMul(RatOf(2), t3), RatMul(RatOf(3), t2)), RatOf(1))
        h10 == RatAdd(RatSub(t3, RatMul(RatOf(2), t2)), t)
        h01 == RatAdd(RatMul(RatOf(-2), t3), RatMul(RatOf(3), t2))
        h11 == RatSub(t3, t2)
        m1  == IF i > 0 THEN RatHalf(RatSub(p2.yOffset, points[i].yOffset)) ELSE RatOf(0)
        m2  == IF i < Len(scaled) - 2
               THEN RatHalf(RatSub(points[i + 3].yOffset, p1.yOffset)) ELSE RatOf(0)
        yOffset   == RatAdd(RatAdd(RatAdd(RatMul(h00, p1.yOffset), RatMul(h10, m1)),
                                   RatMul(h01, p2.yOffset)), RatMul(h11, m2))
        intensity == MathRound(RatAdd(RatOf(p1.intensity),
                                      RatMul(t, RatOf(p2.intensity - p1.intensity))))
        width     == MathRound(RatAdd(RatOf(p1.width), RatMul(t, RatOf(p2.width - p1.width))))
    IN  Sample(col, yOffset, Max(0, Min(255, intensity)), Max(0, Min(255, width)), width > 0)

\* lines 50-87: one iteration of the fill loop, for the 0-based index i
FillBetween(arr, points, scaled, i, targetResolution) ==
    LET p1 == scaled[i + 1]
        p2 == scaled[i + 2]
    IN  IF p1.column.nan \/ p2.column.nan THEN arr
        ELSE LET startCol == Max(0, p1.column.v)
                 endCol   == Min(targetResolution - 1, p2.column.v)
             IN  [k \in 1..Len(arr) |->
                    IF endCol - startCol > 1 /\ k - 1 > startCol /\ k - 1 < endCol
                    THEN FillSample(points, scaled, i, k - 1)
                    ELSE arr[k]]

\* an extrapolation that holds the last point's values on the left edge too
ExtrapolateEdgesFromLast(arr, scaled, targetResolution) ==
    IF scaled = <<>> THEN arr
    ELSE LET firstPoint == scaled[1]
             lastPoint  == scaled[Len(scaled)]
         IN  [k \in 1..Len(arr) |->
                IF ~arr[k].hole THEN arr[k]
                ELSE IF (~firstPoint.column.nan /\ k - 1 < firstPoint.column.v
                         /\ k - 1 < targetResolution)
                        \/ (~lastPoint.column.nan /\ k - 1 >= lastPoint.column.v + 1
                            /\ k - 1 < targetResolution)
                THEN Sample(k - 1, lastPoint.yOffset, lastPoint.intensity,
                            lastPoint.width, lastPoint.valid)
                ELSE arr[k]]

\* lines 98-128: extrapolateEdges(interpolated, points, targetResolution),
\* points being the scaled points
ExtrapolateEdges(arr, scaled, targetResolution) ==
    IF scaled = <<>> THEN arr
    ELSE LET firstPoint == scaled[1]
             lastPoint  == scaled[Len(scaled)]
         IN  [k \in 1..Len(arr) |->
                IF ~arr[k].hole THEN arr[k]
                ELSE IF ~firstPoint.column.nan /\ k - 1 < firstPoint.column.v
                        /\ k - 1 < targetResolution
                THEN Sample(k - 1, firstPoint.yOffset, firstPoint.intensity,
                            firstPoint.width, firstPoint.valid)
                ELSE IF ~lastPoint.column.nan /\ k - 1 >= lastPoint.column.v + 1
                        /\ k - 1 < targetResolution
                THEN Sample(k - 1, lastPoint.yOffset, lastPoint.intensity,
                            lastPoint.width, lastPoint.valid)
                ELSE arr[k]]

\* lines 49-87: the fill loop from the 0-based index i on
RECURSIVE FillAll(_, _, _, _, _)
FillAll(arr, points, scaled, i, targetResolution) ==
    IF i < Len(scaled) - 1
    THEN FillAll(FillBetween(arr, points, scaled, i, targetResolution),
                 points, scaled, i + 1, targetResolution)
    ELSE arr

\* lines 38-92: the result for the scaled points
InterpolateWith(points, scaled, targetResolution) ==
    ExtrapolateEdges(FillAll(PlacePoints([k \in 1..targetResolution |-> Hole],
                                         scaled, targetResolution),
                             points, scaled, 0, targetResolution),
                     scaled, targetResolution)

\* lines 16-93: interpolateLaserProfile(points, targetResolution)
InterpolateLaserProfile(points, targetResolution) ==
    IF points = <<>> \/ FilterValid(points) = <<>> THEN <<>>
    ELSE InterpolateWith(points, ScaledPoints(points, targetResolution), targetResolution)

-----------------------------------------------------------------------------
(* createRealisticLaserProfile.  Math.exp(-x) is taken to the nearest power  *)
(* of two, 2^-b with b = round(x / ln 2); the weights of one column are kept *)
(* relative to the largest of them, and a weight below 2^-16 of the largest  *)
(* counts as 0.                                                              *)

\* line 150: Math.round(point.column * targetResolution / Math.max(...))
ScaledCol(point, targetResolution, maxColumn) ==
    MathRound(Rat(point.column * targetResolution, maxColumn))

\* lines 140, 152: (distance * distance) / (2 * sigma * sigma) for
\* sigma = targetResolution / (count * 4)
Exponent(distance, count, targetResolution) ==
    Rat(8 * distance * distance * count * count, targetResolution * targetResolution)

\* line 152: the b of the weight 2^-b; 1 / ln 2 = 1477 / 1024
ExpBits(x) == MathRound(RatMul(x, Rat(1477, 1024)))

\* lines 150-152: the b of every valid point's weight at column col
WeightBits(validPoints, targetResolution, maxColumn, col) ==
    [i \in 1..Len(validPoints) |->
        ExpBits(Exponent(Abs(col - ScaledCol(validPoints[i], targetResolution, maxColumn)),
                         Len(validPoints), targetResolution))]

\* the least of the numbers of a sequence
Least(s) == CHOOSE m \in { s[k] : k \in 1..Len(s) } : \A k \in 1..Len(s) : m <= s[k]

\* the weights of a column times 2^16 / the largest; Math.exp gives 0 below
\* 2^-1075
Weights(bits, least) ==
    [i \in 1..Len(bits) |->
        IF bits[i] > 1075 \/ bits[i] - least > 16 THEN 0 ELSE 2 ^ (16 - (bits[i] - least))]

\* lines 154-157: the sums of weight and of value * weight
RECURSIVE TotalWeight(_)
TotalWeight(weights) ==
    IF weights = <<>> THEN 0 ELSE Head(weights) + TotalWeight(Tail(weights))

RECURSIVE WeightedY(_, _)
WeightedY(validPoints, weights) ==
    IF weights = <<>> THEN RatOf(0)
    ELSE RatAdd(RatMul(Head(validPoints).yOffset, RatOf(Head(weights))),
                WeightedY(Tail(validPoints), Tail(weights)))

RECURSIVE WeightedIntensity(_, _)
WeightedIntensity(validPoints, weights) ==
    IF weights = <<>> THEN 0
    ELSE Head(validPoints).intensity * Head(weights)
             + WeightedIntensity(Tail(validPoints), Tail(weights))

RECURSIVE WeightedWidth(_, _)
WeightedWidth(validPoints, weights) ==
    IF weights = <<>> THEN 0
    ELSE Head(validPoints).width * Head(weights)
             + WeightedWidth(Tail(validPoints), Tail(weights))

\* lines 160-168: the entry of column col for the weights of the column; the
\* slot stays empty unless totalWeight > 0
RealisticSample(validPoints, weights, totalWeight, col) ==
    IF totalWeight > 0
    THEN Sample(col,
                RatMul(WeightedY(validPoints, weights), Rat(1, totalWeight)),
                MathRound(Rat(WeightedIntensity(validPoints, weights), totalWeight)),
                MathRound(Rat(WeightedWidth(validPoints, weights), totalWeight)),
                WeightedWidth(validPoints, weights) > 0)
    ELSE Hole

\* lines 142-168: one column, from the b of the weights
RealisticFromBits(validPoints, bits, col) ==
    RealisticSample(validPoints, Weights(bits, Least(bits)),
                    TotalWeight(Weights(bits, Least(bits))), col)

\* lines 135-170 for the valid points; with a largest column of 0 every
\* scaledCol is NaN (0 / 0), every weight and totalWeight too, and
\* totalWeight > 0 is false
RealisticWith(validPoints, targetResolution, maxColumn) ==
    [k \in 1..targetResolution |->
        IF maxColumn = 0 THEN Hole
        ELSE RealisticFromBits(validPoints,
                               WeightBits(validPoints, targetResolution, maxColumn, k - 1),
                               k - 1)]

\* lines 134-171: createRealisticLaserProfile(points, targetResolution)
CreateRealisticLaserProfile(points, targetResolution) ==
    IF FilterValid(points) = <<>> THEN <<>>
    ELSE RealisticWith(FilterValid(points), targetResolution,
                       MaxColumnOf(FilterValid(points)))

\* the values of an input point: no return, and two returns
ValueSamples ==
    { [yOffset |-> RatOf(3),   intensity |-> 0,   width |-> 0,   valid |-> FALSE],
      [yOffset |-> RatOf(1),   intensity |-> 10,  width |-> 1,   valid |-> TRUE],
      [yOffset |-> Rat(9, 2),  intensity |-> 250, width |-> 255, valid |-> TRUE] }

\* the input arrays: up to MaxPoints points in any order, one per column
InputArrays ==
    { a \in UNION { [1..k -> [column : 0..MaxColumn, value : ValueSamples]] : k \in 0..MaxPoints } :
        \A i, j \in 1..Len(a) : i # j => a[i].column # a[j].column }

InputPoints(a) ==
    [i \in 1..Len(a) |->
        [column |-> a[i].column, yOffset |-> a[i].value.yOffset,
         intensity |-> a[i].value.intensity, width |-> a[i].value.width,
         valid |-> a[i].value.valid]]

TargetResolutions == {1, 4, 7}

\* a start that sorts the argument array itself
InterpStartSortingArgument ==
    /\ ipc = "call"
    /\ ipoints' = SortByColumn(ipoints)
    /\ IF ipoints = <<>> \/ FilterValid(ipoints) = <<>>
       THEN /\ interpolated' = <<>>
            /\ ipc' = "returned"
            /\ UNCHANGED <<scaledPoints, ifill>>
       ELSE /\ scaledPoints' = ScaledPoints(ipoints, itarget)
            /\ interpolated' = PlacePoints([k \in 1..itarget |-> Hole],
                                           ScaledPoints(ipoints, itarget), itarget)
            /\ ifill' = 0
            /\ ipc' = "fill"
    /\ UNCHANGED <<itarget, decoderVars, triVars, demoVars, pipeVars, appVars>>

\* lines 16-46: the early returns, then the scaled points are placed
InterpStart ==
    /\ ipc = "call"
    /\ IF ipoints = <<>> \/ FilterValid(ipoints) = <<>>
       THEN /\ interpolated' = <<>>
            /\ ipc' = "returned"
            /\ UNCHANGED <<scaledPoints, ifill>>
       ELSE /\ scaledPoints' = ScaledPoints(ipoints, itarget)
            /\ interpolated' = PlacePoints([k \in 1..itarget |-> Hole],
                                           ScaledPoints(ipoints, itarget), itarget)
            /\ ifill' = 0
            /\ ipc' = "fill"
    /\ UNCHANGED <<ipoints, itarget, decoderVars, triVars, demoVars, pipeVars, appVars>>

\* lines 49-87: one iteration of the loop over consecutive scaled points
InterpFill ==
    /\ ipc = "fill"
    /\ ifill < Len(scaledPoints) - 1
    /\ interpolated' = FillBetween(interpolated, ipoints, scaledPoints, ifill, itarget)
    /\ ifill' = ifill + 1
    /\ UNCHANGED <<ipc, ipoints, itarget, scaledPoints, decoderVars, triVars, demoVars, pipeVars, appVars>>

\* line 49: the loop over consecutive scaled points ends
InterpFillExit ==
    /\ ipc = "fill"
    /\ ~(ifill < Len(scaledPoints) - 1)
    /\ ipc' = "edges"
    /\ UNCHANGED <<ipoints, itarget, scaledPoints, interpolated, ifill, decoderVars, triVars, demoVars, pipeVars, appVars>>

\* lines 89-92: extrapolateEdges, and the array is returned
InterpExtrapolate ==
    /\ ipc = "edges"
    /\ interpolated' = ExtrapolateEdges(interpolated, scaledPoints, itarget)
    /\ ipc' = "returned"
    /\ UNCHANGED <<ipoints, itarget, scaledPoints, ifill, decoderVars, triVars, demoVars, pipeVars, appVars>>

\* createRealisticLaserProfile(points, targetResolution) called with the
\* same arguments, first or after interpolateLaserProfile has returned; the
\* array it returns is kept in interpolated
RealisticCall ==
    /\ ipc \in {"call", "returned"}
    /\ interpolated' = CreateRealisticLaserProfile(ipoints, itarget)
    /\ ipc' = "realistic_returned"
    /\ UNCHANGED <<ipoints, itarget, scaledPoints, ifill, decoderVars, triVars, demoVars, pipeVars, appVars>>

InitInterp ==
    /\ AppIdle
    /\ DecoderIdle
    /\ TriIdle
    /\ DemoIdle
    /\ PipeIdle
    /\ ipc = "call"
    /\ ipoints \in { InputPoints(a) : a \in InputArrays }
    /\ itarget \in TargetResolutions
    /\ scaledPoints = <<>>
    /\ interpolated = <<>>
    /\ ifill = 0

NextInterp ==
    \/ InterpStart
    \/ InterpFill
    \/ InterpFillExit
    \/ InterpExtrapolate
    \/ RealisticCall

SpecInterp == InitInterp /\ [][NextInterp]_vars

-----------------------------------------------------------------------------
(* Properties of the interpolator *)

\* C8: for an input with at least one valid point and targetResolution >= 1
\* the result has targetResolution entries, and every index c holds a sample
\* whose column is c.
C8_DenseProfile ==
    (ipc = "returned" /\ itarget >= 1 /\ \E i \in 1..Len(ipoints) : ipoints[i].valid)
        => /\ Len(interpolated) = itarget
           /\ \A c \in 0..(itarget - 1) :
                 /\ ~interpolated[c + 1].hole
                 /\ interpolated[c + 1].column = c

-----------------------------------------------------------------------------
(* triangulate2Dto3D.  Vectors are integer triples; a direction or a normal  *)
(* is kept up to a positive factor, which changes neither the point where a  *)
(* ray meets a plane nor the sign of its ray parameter.  An angle is given   *)
(* by its exact cosine c/k and sine s/k (k > 0).                             *)

\* bound of the triangulation's input: pixels in one call
MaxPixels == 3

Angle(c, s, k) == [c |-> c, s |-> s, k |-> k]

\* 0, 90 and 180 degrees, and atan(3/4) = 36.87 degrees
A0   == Angle(1, 0, 1)
A90  == Angle(0, 1, 1)
A180 == Angle(-1, 0, 1)
A37  == Angle(4, 3, 5)

\* the angle -a
Negated(a) == Angle(a.c, -a.s, a.k)

Dot(a, b) == a[1] * b[1] + a[2] * b[2] + a[3] * b[3]

\* v divided by the greatest common divisor of its components
Primitive(v) ==
    LET g == GCD(GCD(Abs(v[1]), Abs(v[2])), Abs(v[3]))
    IN  IF g = 0 THEN v ELSE <<v[1] \div g, v[2] \div g, v[3] \div g>>

\* the rotation of new THREE.Euler(x, y, z, 'XYZ') as a matrix (rows), times
\* x.k * y.k * z.k; Quaternion.setFromEuler and applyQuaternion apply it
EulerXYZ(x, y, z) ==
    LET a == x.c  b == x.s
        c == y.c  d == y.s
        e == z.c  f == z.s
    IN  << << c * e * x.k,                -c * f * x.k,               d * x.k * z.k >>,
           << a * f * y.k + b * e * d,    a * e * y.k - b * f * d,    -b * c * z.k >>,
           << b * f * y.k - a * e * d,    b * e * y.k + a * f * d,    a * c * z.k >> >>

\* v.applyQuaternion(q) for the rotation matrix m of q, up to a positive factor
Rotate(m, v) == Primitive(<<Dot(m[1], v), Dot(m[2], v), Dot(m[3], v)>>)

\* lines 24-31: the camera position and orientation
CamPos(params) == <<params.camX, params.camY, params.camZ>>

CameraRotation(params) == EulerXYZ(Negated(params.camPitch), params.camYaw, params.camRoll)

\* lines 36-46: the laser plane, by its normal and a point on it
PlaneNormal(params) ==
    Rotate(EulerXYZ(Negated(params.laserPitch), params.laserYaw, params.laserRoll), <<0, -1, 0>>)

PlanePoint(params) == <<params.laserX, params.laserY, params.laserZ>>

\* line 20: (imageHeight || 1152)
ImageHeight(params) == IF params.imageHeight = 0 THEN 1152 ELSE params.imageHeight

\* lines 57-61: the direction of the ray through pixel (u, v) in camera space,
\* ((u - cx) * pxMm / f, (cy - v) * pxMm / f, 1) times 2000 * f * v.d
LocalDir(u, v, params) ==
    Primitive(<< (2 * u - params.imageWidth) * params.pixelSize * v.d,
                 (ImageHeight(params) * v.d - 2 * v.n) * params.pixelSize,
                 2000 * params.focalLength * v.d >>)

\* line 64: the ray direction in world space
WorldDir(u, v, params) == Rotate(CameraRotation(params), LocalDir(u, v, params))

\* line 68: ray.intersectPlane(plane, intersection) for the ray from origin
\* along dir: no hit when the ray is parallel to the plane and off it or
\* meets it behind its origin (t < 0); t = num / denom
IntersectPlane(origin, dir, normal, planePoint) ==
    LET denom == Dot(normal, dir)
        num   == Dot(normal, <<planePoint[1] - origin[1], planePoint[2] - origin[2],
                               planePoint[3] - origin[3]>>)
    IN  IF denom = 0
        THEN IF num = 0
             THEN [hit |-> TRUE, x |-> RatOf(origin[1]), y |-> RatOf(origin[2]),
                   z |-> RatOf(origin[3])]
             ELSE [hit |-> FALSE]
        ELSE IF num * denom < 0 THEN [hit |-> FALSE]
        ELSE [hit |-> TRUE,
              x |-> Rat(origin[1] * denom + num * dir[1], denom),
              y |-> Rat(origin[2] * denom + num * dir[2], denom),
              z |-> Rat(origin[3] * denom + num * dir[3], denom)]

\* lines 51-68: the intersection for pixel (u, v)
PixelHit(u, v, params) ==
    IntersectPlane(CamPos(params), WorldDir(u, v, params),
                   PlaneNormal(params), PlanePoint(params))

\* a filter that accepts every intersection, whatever its depth
AcceptedAnyDepth(h, params) == h.hit

\* line 70: hit && intersection.z > camPos.z
Accepted(h, params) == h.hit /\ h.z.n > params.camZ * h.z.d

\* the poses: camera at the origin or moved along z, level, tilted or turned
\* back; laser plane level, tilted or facing along z
Poses ==
    [ focalLength : {24}, pixelSize : {11}, imageWidth : {4}, imageHeight : {4},
      camX : {0}, camY : {0}, camZ : {0, 1},
      camPitch : {A0, A37}, camYaw : {A0, A180}, camRoll : {A0},
      laserX : {0}, laserY : {-5, 0}, laserZ : {-2, 0, 3},
      laserPitch : {A0, A37, A90}, laserYaw : {A0}, laserRoll : {A0} ]

\* pixel rows, as decoded yOffsets
RowSamples == { RatOf(2), Rat(1, 2) }

\* the pixels of one call: ascending columns of the image, a row for each
PixelInputs ==
    { px \in UNION { [1..k -> [u : 0..3, v : RowSamples]] : k \in 0..MaxPixels } :
        \A i \in 1..(Len(px) - 1) : px[i].u < px[i + 1].u }

\* lines 15-48: the camera and the plane are set up, points = []
TriStart ==
    /\ tpc = "call"
    /\ tpc' = "loop"
    /\ ti' = 0
    /\ tpoints' = <<>>
    /\ UNCHANGED <<tparams, tcolumns, trows, decoderVars, interpVars, demoVars, pipeVars, appVars>>

\* an iteration that keeps the output aligned with the input by storing the
\* missing point as an empty entry
TriStepAligned ==
    /\ tpc = "loop"
    /\ ti < Len(tcolumns)
    /\ LET h == PixelHit(tcolumns[ti + 1], trows[ti + 1], tparams)
       IN  tpoints' = IF Accepted(h, tparams)
                      THEN Append(tpoints, [x |-> h.x, y |-> h.y, z |-> h.z])
                      ELSE Append(tpoints, [x |-> RatOf(0), y |-> RatOf(0),
                                            z |-> RatOf(tparams.camZ + 1)])
    /\ ti' = ti + 1
    /\ UNCHANGED <<tpc, tparams, tcolumns, trows, decoderVars, interpVars, demoVars, pipeVars, appVars>>

\* lines 50-73: one iteration of the loop over the pixels
TriStep ==
    /\ tpc = "loop"
    /\ ti < Len(tcolumns)
    /\ LET h == PixelHit(tcolumns[ti + 1], trows[ti + 1], tparams)
       IN  tpoints' = IF Accepted(h, tparams)
                      THEN Append(tpoints, [x |-> h.x, y |-> h.y, z |-> h.z])
                      ELSE tpoints
    /\ ti' = ti + 1
    /\ UNCHANGED <<tpc, tparams, tcolumns, trows, decoderVars, interpVars, demoVars, pipeVars, appVars>>

\* lines 50, 75: the loop ends and points is returned
TriReturn ==
    /\ tpc = "loop"
    /\ ~(ti < Len(tcolumns))
    /\ tpc' = "returned"
    /\ UNCHANGED <<tparams, tcolumns, trows, ti, tpoints, decoderVars, interpVars, demoVars, pipeVars, appVars>>

InitTri ==
    /\ AppIdle
    /\ DecoderIdle
    /\ InterpIdle
    /\ DemoIdle
    /\ PipeIdle
    /\ tpc = "call"
    /\ tparams \in Poses
    /\ \E px \in PixelInputs :
          /\ tcolumns = [i \in 1..Len(px) |-> px[i].u]
          /\ trows = [i \in 1..Len(px) |-> px[i].v]
    /\ ti = 0
    /\ tpoints = <<>>

NextTri ==
    \/ TriStart
    \/ TriStep
    \/ TriReturn

SpecTri == InitTri /\ [][NextTri]_vars

-----------------------------------------------------------------------------
(* Properties of the triangulation *)

\* the laser plane is a plane z = laserZ that does not lie in front of the camera
PlaneBehindCamera ==
    /\ PlaneNormal(tparams)[1] = 0
    /\ PlaneNormal(tparams)[2] = 0
    /\ tparams.laserZ <= tparams.camZ

\* C9: every point in the output has z > camZ, and for a pose whose laser
\* plane lies wholly at or behind the camera's z the result is empty.
C9_DepthFilter ==
    (tpc \in {"loop", "returned"})
        => /\ \A k \in 1..Len(tpoints) : tpoints[k].z.n > tparams.camZ * tpoints[k].z.d
           /\ (tpc = "returned" /\ PlaneBehindCamera) => tpoints = <<>>

C9_Witness ==
    /\ tpc = "returned"
    /\ PlaneBehindCamera
    /\ Len(tcolumns) = 3
    /\ \E i \in 1..3 : PixelHit(tcolumns[i], trows[i], tparams).hit
    /\ tpoints = <<>>

\* the pixels among the first n whose ray meets the plane in front of the camera
AcceptedPixels(n) ==
    { j \in 1..n : LET h == PixelHit(tcolumns[j], trows[j], tparams)
                   IN  h.hit /\ h.z.n > tparams.camZ * h.z.d }

\* the k-th accepted pixel, in input order
NthAccepted(n, k) ==
    CHOOSE j \in AcceptedPixels(n) : Cardinality({m \in AcceptedPixels(n) : m < j}) = k - 1

\* C10: a pixel whose ray misses the plane or meets it behind the camera is
\* left out and nothing else happens: the output holds, in input order, the
\* intersection points of the accepted pixels and no other entry, so it is
\* no longer than the input.
C10_OrderedSubsequence ==
    (tpc \in {"loop", "returned"})
        => /\ Len(tpoints) <= ti
           /\ ti <= Len(tcolumns)
           /\ tpc = "returned" => ti = Len(tcolumns)
           /\ Len(tpoints) = Cardinality(AcceptedPixels(ti))
           /\ \A k \in 1..Len(tpoints) :
                 LET h == PixelHit(tcolumns[NthAccepted(ti, k)], trows[NthAccepted(ti, k)], tparams)
                 IN  tpoints[k] = [x |-> h.x, y |-> h.y, z |-> h.z]

C10_Witness ==
    /\ tpc = "returned"
    /\ Len(tcolumns) = 3
    /\ AcceptedPixels(3) = {1, 3}
    /\ Len(tpoints) = 2
    /\ tpoints[1] # tpoints[2]

-----------------------------------------------------------------------------
(* Numbers of the synthetic profile and of the circle fits *)

RatDiv(x, y) == RatMul(x, Rat(y.d, y.n))

RatNeg(x) == [n |-> -x.n, d |-> x.d]

RatAbs(x) == [n |-> Abs(x.n), d |-> x.d]

RatLess(x, y) == RatSub(x, y).n < 0

RatLeq(x, y) == RatSub(x, y).n <= 0

\* a value that is not a number: 0 * Infinity, 0 / 0 and what is computed from them
NaN == [nan |-> TRUE]

IsNaN(x) == "nan" \in DOMAIN x

\* the largest s in lo..hi with s * s <= m
RECURSIVE ISqrtIn(_, _, _)
ISqrtIn(m, lo, hi) ==
    IF lo = hi THEN lo
    ELSE LET mid == (lo + hi + 1) \div 2
         IN  IF mid * mid <= m THEN ISqrtIn(m, mid, hi) ELSE ISqrtIn(m, lo, mid - 1)

ISqrt(m) == ISqrtIn(m, 0, Min(m, 46340))

\* Math.sqrt(x) for x >= 0: exact on the square of a rational, otherwise
\* rounded down to a multiple of 1/16
Sqrt(x) ==
    LET sn == ISqrt(x.n)
        sd == ISqrt(x.d)
    IN  IF sn * sn = x.n /\ sd * sd = x.d THEN Rat(sn, sd)
        ELSE LET q == x.n \div x.d
                 r == x.n % x.d
             IN  IF q <= 8000000 /\ r <= 8000000
                 THEN Rat(ISqrt(256 * q + (256 * r) \div x.d), 16)
                 ELSE Rat(ISqrt(q), 1)

\* Math.sin(t), piecewise linear between its zeros and extremes with the
\* quarter period pi/2 taken as 11/7
Sin(t) ==
    LET u == Rat(7 * t.n, 11 * t.d)
        k == u.n \div u.d
        f == Rat(u.n - k * u.d, u.d)
        q == k % 4
    IN  IF q = 0 THEN f
        ELSE IF q = 1 THEN RatSub(RatOf(1), f)
        ELSE IF q = 2 THEN RatNeg(f)
        ELSE RatSub(f, RatOf(1))

-----------------------------------------------------------------------------
(* generateDemoProfile *)

\* line 109: Math.abs(planeNormal.y) < 1e-6 for the unit normal n / |n|,
\* that is 1000000 * |n.y| < |n|
NormalYIsSmall(n) ==
    LET a == 1000000 * Abs(n[2])
        s == ISqrt(Dot(n, n))
    IN  a < s \/ (a = s /\ s * s < Dot(n, n))

\* lines 108-111: getYOnPlane(x, z)
GetYOnPlane(x, z, params) ==
    LET n == PlaneNormal(params)
        p == PlanePoint(params)
    IN  IF NormalYIsSmall(n) THEN RatOf(0)
        ELSE RatSub(RatOf(p[2]),
                    RatDiv(RatAdd(RatMul(RatOf(n[1]), RatSub(x, RatOf(p[1]))),
                                  RatMul(RatOf(n[3]), RatSub(z, RatOf(p[3])))),
                           RatOf(n[2])))

\* line 142: the seabed texture
SeabedNoise(x) ==
    RatAdd(RatMul(Sin(RatMul(x, Rat(1, 20))), Rat(1, 2)),
           RatMul(Sin(RatMul(x, Rat(13, 100))), Rat(3, 10)))

\* lines 122-124, 129: x = xMin + i * step with step = (xMax - xMin) / (numPoints - 1);
\* for numPoints = 1 the step is 6 * diameter / 0, Infinity or NaN, and 0 * step is NaN
DemoX(diameter, offsetX, numPoints, i) ==
    IF numPoints = 1 THEN NaN
    ELSE RatAdd(RatOf(offsetX - 3 * diameter), RatMul(RatOf(i), Rat(6 * diameter, numPoints - 1)))

\* lines 114-144: the depth z at x: the upper arc of the pipe, or the seabed
DemoZ(x, params, diameter, offsetX) ==
    LET pipeRadius  == Rat(diameter, 2)
        seabedZ     == RatOf(params.camZ + 1500)
        pipeCentreZ == RatSub(seabedZ, pipeRadius)
        dx          == RatSub(x, RatOf(offsetX))
    IN  IF RatLeq(RatAbs(dx), pipeRadius)
        THEN RatSub(pipeCentreZ, Sqrt(RatSub(RatMul(pipeRadius, pipeRadius), RatMul(dx, dx))))
        ELSE RatAdd(seabedZ, SeabedNoise(x))

\* lines 129-147: the point of iteration i; a NaN x fails the test of line 133,
\* makes z NaN, and y is NaN unless getYOnPlane returns its constant 0
DemoPoint(params, diameter, offsetX, numPoints, i) ==
    LET x == DemoX(diameter, offsetX, numPoints, i)
    IN  IF IsNaN(x)
        THEN [x |-> NaN, z |-> NaN,
              y |-> IF NormalYIsSmall(PlaneNormal(params)) THEN RatOf(0) ELSE NaN]
        ELSE LET z == DemoZ(x, params, diameter, offsetX)
             IN  [x |-> x, y |-> GetYOnPlane(x, z, params), z |-> z]

\* the laser poses: level, tilted and turned on each axis, anchored at several points
DemoPoses ==
    [ camZ : {0},
      laserX : {0, 2}, laserY : {-5}, laserZ : {0, 3},
      laserPitch : {A0, A37, A90}, laserYaw : {A0, A37}, laserRoll : {A0, A90} ]

DiameterSamples == {0, 10}

OffsetSamples == {0, 1}

NumPointsSamples == {0, 1, 2, 13, 61}

\* lines 94-126: the plane and the extent are set up, points = []
DemoStart ==
    /\ gpc = "call"
    /\ gpc' = "loop"
    /\ gi' = 0
    /\ gpoints' = <<>>
    /\ UNCHANGED <<gparams, gdiameter, goffsetX, gnum, decoderVars, interpVars, triVars, pipeVars, appVars>>

\* lines 128-148: one iteration of the loop
DemoStep ==
    /\ gpc = "loop"
    /\ gi < gnum
    /\ gpoints' = Append(gpoints, DemoPoint(gparams, gdiameter, goffsetX, gnum, gi))
    /\ gi' = gi + 1
    /\ UNCHANGED <<gpc, gparams, gdiameter, goffsetX, gnum, decoderVars, interpVars, triVars, pipeVars, appVars>>

\* lines 128, 150: the loop ends and { points } is returned
DemoReturn ==
    /\ gpc = "loop"
    /\ ~(gi < gnum)
    /\ gpc' = "returned"
    /\ UNCHANGED <<gparams, gdiameter, goffsetX, gnum, gi, gpoints, decoderVars, interpVars, triVars, pipeVars, appVars>>

InitDemo ==
    /\ AppIdle
    /\ DecoderIdle
    /\ InterpIdle
    /\ TriIdle
    /\ PipeIdle
    /\ gpc = "call"
    /\ gparams \in DemoPoses
    /\ gdiameter \in DiameterSamples
    /\ goffsetX \in OffsetSamples
    /\ gnum \in NumPointsSamples
    /\ gi = 0
    /\ gpoints = <<>>

NextDemo ==
    \/ DemoStart
    \/ DemoStep
    \/ DemoReturn

SpecDemo == InitDemo /\ [][NextDemo]_vars

-----------------------------------------------------------------------------
(* Properties of the synthetic profile *)

\* n . (p - planePoint) for the point p
PlaneResidual(p, params) ==
    LET n == PlaneNormal(params)
        q == PlanePoint(params)
    IN  RatAdd(RatMul(RatOf(n[1]), RatSub(p.x, RatOf(q[1]))),
               RatAdd(RatMul(RatOf(n[2]), RatSub(p.y, RatOf(q[2]))),
                      RatMul(RatOf(n[3]), RatSub(p.z, RatOf(q[3])))))

OnLaserPlane(p, params) ==
    /\ ~IsNaN(p.x) /\ ~IsNaN(p.y) /\ ~IsNaN(p.z)
    /\ PlaneResidual(p, params) = RatOf(0)

\* C11: for every laser pose, diameter, offset and numPoints, every point of
\* the synthetic profile satisfies the plane equation n . (p - laserPosition) = 0.
C11_PointsOnLaserPlane ==
    (gpc \in {"loop", "returned"})
        => \A k \in 1..Len(gpoints) : OnLaserPlane(gpoints[k], gparams)

\* the points are on the plane when the plane's normal has a y component and
\* at least two points are asked for
OnPlaneUnlessDegenerate ==
    (gpc \in {"loop", "returned"} /\ gnum # 1 /\ ~NormalYIsSmall(PlaneNormal(gparams)))
        => \A k \in 1..Len(gpoints) : OnLaserPlane(gpoints[k], gparams)

-----------------------------------------------------------------------------
\* Circle fitting: fitCircle and getCircleFrom3Points (src/unnamed/part_000;
\* src/src/utils/pipeFitting.js holds the same fitCircle).  Points carry whole
\* millimetres; sums and determinants are integers, and a quotient is rounded
\* to the nearest multiple of 1/64, a value the quotient already has whenever
\* it is that short.

\* the value null
null == [none |-> TRUE]

IsNull(r) == "none" \in DOMAIN r

\* n / d for integers n and d # 0, rounded to the nearest multiple of 1/64
Quot(n, d) ==
    LET s  == IF d < 0 THEN -1 ELSE 1
        nn == s * n
        dd == s * d
        q  == nn \div dd
        r  == nn % dd
    IN  Rat(64 * q + (128 * r + dd) \div (2 * dd), 64)

\* the sum of the integers s[lo], ..., s[hi], by halves
RECURSIVE SumFrom(_, _, _)
SumFrom(s, lo, hi) ==
    IF lo > hi THEN 0
    ELSE IF lo = hi THEN s[lo]
    ELSE LET mid == (lo + hi) \div 2
         IN  SumFrom(s, lo, mid) + SumFrom(s, mid + 1, hi)

SumSeq(s) == SumFrom(s, 1, Len(s))

\* the same for a sequence of fractions
RECURSIVE RatSumFrom(_, _, _)
RatSumFrom(s, lo, hi) ==
    IF lo > hi THEN RatOf(0)
    ELSE IF lo = hi THEN s[lo]
    ELSE LET mid == (lo + hi) \div 2
         IN  RatAdd(RatSumFrom(s, lo, mid), RatSumFrom(s, mid + 1, hi))

RatSum(s) == RatSumFrom(s, 1, Len(s))

\* const det3 = (m) => ...
det3(m) ==
      m[1][1] * (m[2][2] * m[3][3] - m[2][3] * m[3][2])
    - m[1][2] * (m[2][1] * m[3][3] - m[2][3] * m[3][1])
    + m[1][3] * (m[2][1] * m[3][2] - m[2][2] * m[3][1])

\* const replaceCol = (mat, col, vec) => ... (col counted from 1)
replaceCol(mat, col, vec) ==
    [i \in 1..3 |-> [j \in 1..3 |-> IF j = col THEN vec[i] ELSE mat[i][j]]]

\* x ** 2
Squared(x) == RatMul(x, x)

\* Math.sqrt((p.x - cx) ** 2 + (p.z - cz) ** 2)
DistTo(p, cx, cz) ==
    Sqrt(RatAdd(Squared(RatSub(RatOf(p.x), cx)), Squared(RatSub(RatOf(p.z), cz))))

\* |detA| < 1e-12 for an integer determinant
FitIsSingular(detA) == detA = 0

\* a fit that adds F where fitCircle subtracts it
RSquaredPlusF(D, E, F) ==
    RatAdd(RatDiv(RatAdd(RatMul(D, D), RatMul(E, E)), RatOf(4)), F)

\* the value rSquared of fitCircle, from D, E and F
RSquared(D, E, F) ==
    RatSub(RatDiv(RatAdd(RatMul(D, D), RatMul(E, E)), RatOf(4)), F)

\* the sums fitCircle builds its normal equations from
Moments(points) ==
    LET n == Len(points)
    IN  [Sx   |-> SumSeq([i \in 1..n |-> points[i].x]),
         Sz   |-> SumSeq([i \in 1..n |-> points[i].z]),
         Sx2  |-> SumSeq([i \in 1..n |-> points[i].x * points[i].x]),
         Sz2  |-> SumSeq([i \in 1..n |-> points[i].z * points[i].z]),
         Sxz  |-> SumSeq([i \in 1..n |-> points[i].x * points[i].z]),
         Sx3  |-> SumSeq([i \in 1..n |-> points[i].x * points[i].x * points[i].x]),
         Sz3  |-> SumSeq([i \in 1..n |-> points[i].z * points[i].z * points[i].z]),
         Sx2z |-> SumSeq([i \in 1..n |-> points[i].x * points[i].x * points[i].z]),
         Sxz2 |-> SumSeq([i \in 1..n |-> points[i].x * points[i].z * points[i].z]),
         n    |-> n]

\* the RMS residual of the points about the circle
Rms(points, cx, cz, radius) ==
    Sqrt(RatDiv(RatSum([i \in 1..Len(points) |->
                           Squared(RatSub(DistTo(points[i], cx, cz), radius))]),
                RatOf(Len(points))))

\* fitCircle from rSquared on
FitWithRadius(points, cx, cz, rSquared) ==
    IF rSquared.n <= 0 THEN null
    ELSE [cx |-> cx, cz |-> cz, radius |-> Sqrt(rSquared),
          rms |-> Rms(points, cx, cz, Sqrt(rSquared))]

\* fitCircle from D, E and F on
FitWithSolution(points, D, E, F) ==
    FitWithRadius(points, RatDiv(RatNeg(D), RatOf(2)), RatDiv(RatNeg(E), RatOf(2)),
                  RSquared(D, E, F))

\* a fit that answers a singular system with a circle of radius 0
FitWithSystemDegenerate(points, A, b, detA) ==
    IF FitIsSingular(detA)
    THEN [cx |-> RatOf(0), cz |-> RatOf(0), radius |-> RatOf(0), rms |-> RatOf(0)]
    ELSE FitWithSolution(points,
                         Quot(det3(replaceCol(A, 1, b)), detA),
                         Quot(det3(replaceCol(A, 2, b)), detA),
                         Quot(det3(replaceCol(A, 3, b)), detA))

\* fitCircle from the matrix A and the vector b on: Cramer's rule
FitWithSystem(points, A, b, detA) ==
    IF FitIsSingular(detA) THEN null
    ELSE FitWithSolution(points,
                         Quot(det3(replaceCol(A, 1, b)), detA),
                         Quot(det3(replaceCol(A, 2, b)), detA),
                         Quot(det3(replaceCol(A, 3, b)), detA))

\* fitCircle from the sums on
FitWithMoments(points, S) ==
    FitWithSystem(points,
                  << <<S.Sx2, S.Sxz, S.Sx>>, <<S.Sxz, S.Sz2, S.Sz>>, <<S.Sx, S.Sz, S.n>> >>,
                  << -(S.Sx3 + S.Sxz2), -(S.Sx2z + S.Sz3), -(S.Sx2 + S.Sz2) >>,
                  det3(<< <<S.Sx2, S.Sxz, S.Sx>>, <<S.Sxz, S.Sz2, S.Sz>>, <<S.Sx, S.Sz, S.n>> >>))

FitCircle(points) ==
    IF Len(points) < 3 THEN null ELSE FitWithMoments(points, Moments(points))

\* |det| < 1e-6 for an integer determinant
ThreePointsAreCollinear(det) == det = 0

\* the circle about (cx, cz) through p1
CircleThrough(p1, cx, cz) == [cx |-> cx, cz |-> cz, radius |-> DistTo(p1, cx, cz)]

GetCircleFrom3Points(p1, p2, p3) ==
    LET x1 == p1.x
        y1 == p1.z
        x2 == p2.x
        y2 == p2.z
        x3 == p3.x
        y3 == p3.z
        b == x2 - x1
        c == y2 - y1
        d == x3 - x1
        e == y3 - y1
        f == x2 * x2 - x1 * x1 + y2 * y2 - y1 * y1
        g == x3 * x3 - x1 * x1 + y3 * y3 - y1 * y1
        det == 2 * (b * e - c * d)
    IN  IF ThreePointsAreCollinear(det) THEN null
        ELSE CircleThrough(p1, Quot(e * f - c * g, det), Quot(b * g - d * f, det))

-----------------------------------------------------------------------------
\* Pipe detection: detectPipe of src/unnamed/part_000 (RANSAC), and the
\* detectPipe of src/src/utils/pipeFitting.js (window scan) that App.jsx
\* imports.  Indices count from 0 as in the source.

\* points[i]
Pt(points, i) == points[i + 1]

\* const iterations = 100
ITERATIONS == 100

\* the values Math.random() returns in the runs considered
RandomSamples == { Rat(1, 6), Rat(1, 4), Rat(1, 2), Rat(3, 4), Rat(5, 6) }

\* const { prevResult = null, tolerance = 8 } = options
PrevResultOf(options) ==
    IF "prevResult" \in DOMAIN options THEN options.prevResult ELSE null

ToleranceOf(options) ==
    IF "tolerance" \in DOMAIN options THEN RatOf(options.tolerance) ELSE RatOf(8)

\* const expectedRadius = expectedDiameter / 2
ExpectedRadius(expectedDiameter) == Rat(expectedDiameter, 2)

\* const radTol = expectedRadius * 0.25
RadTol(expectedDiameter) == RatMul(ExpectedRadius(expectedDiameter), Rat(1, 4))

\* the indices 0 .. n-1 in order
AllIndices(points) == [i \in 1..Len(points) |-> i - 1]

\* a search that keeps the window only from 22 points on
SearchIndicesFrom22(points, expectedDiameter, options) ==
    LET prevResult == PrevResultOf(options)
        reach == RatMul(ExpectedRadius(expectedDiameter), Rat(3, 2))
        InWindow(i) ==
            LET xMin == RatSub(prevResult.cx, reach)
                xMax == RatAdd(prevResult.cx, reach)
                x    == RatOf(Pt(points, i).x)
            IN  RatLeq(xMin, x) /\ RatLeq(x, xMax)
        window == IF ~IsNull(prevResult) /\ "cx" \in DOMAIN prevResult
                  THEN SelectSeq(AllIndices(points), InWindow)
                  ELSE <<>>
    IN  IF Len(window) < 22 THEN AllIndices(points) ELSE window

\* step 1 of detectPipe: the search window around the previous centre, or the
\* whole profile when the window holds fewer than 20 points
SearchIndices(points, expectedDiameter, options) ==
    LET prevResult == PrevResultOf(options)
        reach == RatMul(ExpectedRadius(expectedDiameter), Rat(3, 2))
        InWindow(i) ==
            LET xMin == RatSub(prevResult.cx, reach)
                xMax == RatAdd(prevResult.cx, reach)
                x    == RatOf(Pt(points, i).x)
            IN  RatLeq(xMin, x) /\ RatLeq(x, xMax)
        window == IF ~IsNull(prevResult) /\ "cx" \in DOMAIN prevResult
                  THEN SelectSeq(AllIndices(points), InWindow)
                  ELSE <<>>
    IN  IF Len(window) < 20 THEN AllIndices(points) ELSE window

\* searchIndices[Math.floor(Math.random() * searchIndices.length)]
Draw(search, r) == search[((r.n * Len(search)) \div r.d) + 1]

\* Math.abs(circle.radius - expectedRadius) > radTol
RadiusIsOff(circle, expectedDiameter) ==
    RatLess(RadTol(expectedDiameter),
            RatAbs(RatSub(circle.radius, ExpectedRadius(expectedDiameter))))

\* circle.cz < p1.z && circle.cz < p2.z && circle.cz < p3.z
CentreIsAbove(circle, p1, p2, p3) ==
    /\ RatLess(circle.cz, RatOf(p1.z))
    /\ RatLess(circle.cz, RatOf(p2.z))
    /\ RatLess(circle.cz, RatOf(p3.z))

\* Math.abs(dist - circle.radius) < tolerance
IsInlier(p, circle, tolerance) ==
    RatLess(RatAbs(RatSub(DistTo(p, circle.cx, circle.cz), circle.radius)), tolerance)

\* a loop body that counts inliers over the whole profile
TestCircleAllPoints(points, expectedDiameter, tolerance, search, p1, p2, p3, circle) ==
    IF IsNull(circle) THEN null
    ELSE IF RadiusIsOff(circle, expectedDiameter) THEN null
    ELSE IF CentreIsAbove(circle, p1, p2, p3) THEN null
    ELSE LET In(idx) == IsInlier(Pt(points, idx), circle, tolerance)
         IN  [circle |-> circle, inliers |-> SelectSeq(AllIndices(points), In)]

\* the RANSAC loop body from the circle of the three points on, up to the
\* inlier count: null where the body takes a continue
TestCircle(points, expectedDiameter, tolerance, search, p1, p2, p3, circle) ==
    IF IsNull(circle) THEN null
    ELSE IF RadiusIsOff(circle, expectedDiameter) THEN null
    ELSE IF CentreIsAbove(circle, p1, p2, p3) THEN null
    ELSE LET In(idx) == IsInlier(Pt(points, idx), circle, tolerance)
         IN  [circle |-> circle, inliers |-> SelectSeq(search, In)]

\* one pass of the RANSAC loop body for three drawn indices
Hypothesis(points, expectedDiameter, tolerance, search, idx1, idx2, idx3) ==
    IF idx1 = idx2 \/ idx2 = idx3 \/ idx1 = idx3 THEN null
    ELSE TestCircle(points, expectedDiameter, tolerance, search,
                    Pt(points, idx1), Pt(points, idx2), Pt(points, idx3),
                    GetCircleFrom3Points(Pt(points, idx1), Pt(points, idx2), Pt(points, idx3)))

\* a detector content with 10 inliers
TooFewInliersTen(circle, inliers) == IsNull(circle) \/ Len(inliers) < 10

\* !bestCircle || bestInliers.length < 15
TooFewInliers(circle, inliers) == IsNull(circle) \/ Len(inliers) < 15

\* Math.min(...bestInliers) and Math.max(...bestInliers)
MinOf(s) == CHOOSE m \in { s[k] : k \in 1..Len(s) } : \A k \in 1..Len(s) : m <= s[k]

MaxOf(s) == CHOOSE m \in { s[k] : k \in 1..Len(s) } : \A k \in 1..Len(s) : m >= s[k]

\* the object detectPipe returns for a fit and a span
Detection(fit, startIdx, endIdx) ==
    [cx |-> fit.cx, cz |-> fit.cz, radius |-> fit.radius, rms |-> fit.rms,
     diameter |-> RatMul(fit.radius, RatOf(2)),
     inlierStart |-> startIdx, inlierEnd |-> endIdx]

\* the value returned for the refined fit of the inliers
Refined(refined, inliers) ==
    IF IsNull(refined) THEN null
    ELSE Detection(refined, MinOf(inliers), MaxOf(inliers))

\* step 3 of detectPipe: the refinement and the value returned
Refine(points, circle, inliers) ==
    IF TooFewInliers(circle, inliers) THEN null
    ELSE Refined(FitCircle([k \in 1..Len(inliers) |-> Pt(points, inliers[k])]), inliers)

\* detectPipe up to the loop: the early return, the search window and the
\* loop's variables
DetectCall ==
    /\ ppc = "call"
    /\ IF Len(ppoints) < 15
       THEN /\ ppc' = "returned"
            /\ presult' = null
            /\ UNCHANGED <<searchIndices, hypotheses>>
       ELSE LET search == SearchIndices(ppoints, pexpected, poptions)
                drawn  == { Draw(search, r) : r \in RandomSamples }
            IN  /\ ppc' = "ransac"
                /\ searchIndices' = search
                /\ hypotheses' =
                       [t \in drawn \X drawn \X drawn |->
                           Hypothesis(ppoints, pexpected, ToleranceOf(poptions), search,
                                      t[1], t[2], t[3])]
                /\ UNCHANGED presult
    /\ iter' = 0
    /\ bestInliers' = <<>>
    /\ bestCircle' = null
    /\ UNCHANGED <<ppoints, pexpected, poptions, wresult>>
    /\ UNCHANGED <<decoderVars, interpVars, triVars, demoVars, appVars>>

\* an iteration that replaces the best hypothesis on a tie as well
DetectIterLatest(r1, r2, r3) ==
    /\ ppc = "ransac"
    /\ iter < ITERATIONS
    /\ LET idx1 == Draw(searchIndices, r1)
           idx2 == Draw(searchIndices, r2)
           idx3 == Draw(searchIndices, r3)
           h    == hypotheses[<<idx1, idx2, idx3>>]
       IN  IF ~IsNull(h) /\ Len(h.inliers) >= Len(bestInliers)
           THEN /\ bestInliers' = h.inliers
                /\ bestCircle' = h.circle
           ELSE UNCHANGED <<bestInliers, bestCircle>>
    /\ iter' = iter + 1
    /\ UNCHANGED <<ppc, ppoints, pexpected, poptions, searchIndices, hypotheses,
                   presult, wresult>>
    /\ UNCHANGED <<decoderVars, interpVars, triVars, demoVars, appVars>>

\* one iteration of the RANSAC loop with the three values Math.random() gives
DetectIter(r1, r2, r3) ==
    /\ ppc = "ransac"
    /\ iter < ITERATIONS
    /\ LET idx1 == Draw(searchIndices, r1)
           idx2 == Draw(searchIndices, r2)
           idx3 == Draw(searchIndices, r3)
           h    == hypotheses[<<idx1, idx2, idx3>>]
       IN  IF ~IsNull(h) /\ Len(h.inliers) > Len(bestInliers)
           THEN /\ bestInliers' = h.inliers
                /\ bestCircle' = h.circle
           ELSE UNCHANGED <<bestInliers, bestCircle>>
    /\ iter' = iter + 1
    /\ UNCHANGED <<ppc, ppoints, pexpected, poptions, searchIndices, hypotheses,
                   presult, wresult>>
    /\ UNCHANGED <<decoderVars, interpVars, triVars, demoVars, appVars>>

\* the loop ends: refinement and return
DetectReturn ==
    /\ ppc = "ransac"
    /\ iter = ITERATIONS
    /\ ppc' = "returned"
    /\ presult' = Refine(ppoints, bestCircle, bestInliers)
    /\ UNCHANGED <<ppoints, pexpected, poptions, searchIndices, iter, bestInliers,
                   bestCircle, hypotheses, wresult>>
    /\ UNCHANGED <<decoderVars, interpVars, triVars, demoVars, appVars>>

\* the index of the first point of least z
MinIdx(points) ==
    CHOOSE i \in 0..(Len(points) - 1) :
        /\ \A j \in 0..(Len(points) - 1) : Pt(points, i).z <= Pt(points, j).z
        /\ \A j \in 0..(i - 1) : Pt(points, j).z > Pt(points, i).z

\* Math.abs(fit.radius - expectedRadius) / expectedRadius
RadiusError(fit, expectedDiameter) ==
    RatDiv(RatAbs(RatSub(fit.radius, ExpectedRadius(expectedDiameter))),
           ExpectedRadius(expectedDiameter))

\* fit.rms + radiusError * expectedRadius * 0.5
Score(fit, radiusError, expectedDiameter) ==
    RatAdd(fit.rms, RatMul(RatMul(radiusError, ExpectedRadius(expectedDiameter)), Rat(1, 2)))

\* the window loop body from the fit and its radius error on: the fit with its
\* score and span, or null where the body takes a continue
Scored(fit, radiusError, expectedDiameter, tolerance, start, end) ==
    IF RatLess(tolerance, radiusError) THEN null
    ELSE [fit |-> fit, score |-> Score(fit, radiusError, expectedDiameter),
          start |-> start, end |-> end]

\* the window loop body from the fit of the window on
Candidate(fit, expectedDiameter, tolerance, start, end) ==
    IF IsNull(fit) THEN null
    ELSE Scored(fit, RadiusError(fit, expectedDiameter), expectedDiameter, tolerance,
                start, end)

\* one pass of the window loop
WindowFit(points, expectedDiameter, tolerance, start, end) ==
    IF end + 1 - start < 8 THEN null
    ELSE Candidate(FitCircle(SubSeq(points, start + 1, end + 1)), expectedDiameter,
                   tolerance, start, end)

\* if (score < bestScore) ..., bestScore being Infinity while there is no best fit
Better(cand, best) ==
    IF ~IsNull(cand) /\ (IsNull(best) \/ RatLess(cand.score, best.score))
    THEN cand ELSE best

\* the window loop of the window-scan detectPipe from halfWin on; best is
\* null or the best fit so far with its score and span
RECURSIVE WindowScan(_, _, _, _, _, _)
WindowScan(points, expectedDiameter, tolerance, minIdx, halfWin, best) ==
    IF ~(halfWin < Len(points) \div 2) THEN best
    ELSE WindowScan(points, expectedDiameter, tolerance, minIdx, halfWin + 2,
                    Better(WindowFit(points, expectedDiameter, tolerance,
                                     Max(0, minIdx - halfWin),
                                     Min(Len(points) - 1, minIdx + halfWin)),
                           best))

\* the value returned for the best window
Reported(best) ==
    IF IsNull(best) THEN null ELSE Detection(best.fit, best.start, best.end)

\* detectPipe of pipeFitting.js
DetectPipeWindow(points, expectedDiameter, tolerance) ==
    IF Len(points) < 10 THEN null
    ELSE Reported(WindowScan(points, expectedDiameter, tolerance, MinIdx(points), 5, null))

\* App: pipe = detectPipe(points, pipeDiameter) when points.length > 10, with
\* the window-scan detectPipe and its default tolerance 0.25
WindowDetect ==
    /\ ppc = "call"
    /\ ppc' = "window_returned"
    /\ wresult' = IF Len(ppoints) > 10
                  THEN DetectPipeWindow(ppoints, pexpected, Rat(1, 4))
                  ELSE null
    /\ UNCHANGED <<ppoints, pexpected, poptions, searchIndices, iter, bestInliers,
                   bestCircle, hypotheses, presult>>
    /\ UNCHANGED <<decoderVars, interpVars, triVars, demoVars, appVars>>

\* a call of fitCircle on the points
FitCall ==
    /\ ppc = "call"
    /\ ppc' = "fit_returned"
    /\ presult' = FitCircle(ppoints)
    /\ UNCHANGED <<ppoints, pexpected, poptions, searchIndices, iter, bestInliers,
                   bestCircle, hypotheses, wresult>>
    /\ UNCHANGED <<decoderVars, interpVars, triVars, demoVars, appVars>>

\* a profile at whole millimetres: x rises by 1 from x0, z as listed
Profile(x0, zs) == [k \in 1..Len(zs) |-> [x |-> x0 + k - 1, z |-> zs[k]]]

\* the top of a pipe of radius 7 lying on a flat seabed at z = 7
Hat17 == Profile(-8, <<7, 0, -4, -5, -6, -6, -7, -7, -7, -7, -7, -6, -6, -5, -4, 0, 7>>)

\* the same pipe with more seabed on both sides
Hat23 == Profile(-11, <<7, 7, 7, 7, 0, -4, -5, -6, -6, -7, -7, -7, -7, -7, -6, -6, -5, -4,
                        0, 7, 7, 7, 7>>)

\* the top of a pipe of radius 5 on a seabed at z = 5
Hat15 == Profile(-7, <<5, 5, 0, -3, -4, -5, -5, -5, -5, -5, -4, -3, 0, 5, 5>>)

\* a flat seabed
Flat15 == Profile(-7, [k \in 1..15 |-> 7])

\* the arc of the radius 7 pipe alone
Arc13 == SubSeq(Hat17, 3, 15)

ProfileSamples ==
    { Hat17, Hat23, Hat15, Flat15, Arc13 } \cup { SubSeq(Hat17, 1, k) : k \in {9, 10, 11, 12, 14} }

ExpectedDiameters == {10, 14}

OptionSamples ==
    { [prevResult |-> null],
      [tolerance |-> 1],
      [prevResult |-> [cx |-> RatOf(0)]],
      [prevResult |-> [cx |-> RatOf(100)], tolerance |-> 1] }

\* whole-millimetre points of the circle of radius 10 about (1, 2), and of the
\* circle of radius 5 about (0, 0)
LatticeCircles ==
    { [cx |-> 1, cz |-> 2, radius |-> 10], [cx |-> 0, cz |-> 0, radius |-> 5] }

OnCircle(p, c) ==
    (p.x - c.cx) * (p.x - c.cx) + (p.z - c.cz) * (p.z - c.cz) = c.radius * c.radius

\* the twelve whole-millimetre points of such a circle
CirclePoints(c) ==
    LET a == (3 * c.radius) \div 5
        b == (4 * c.radius) \div 5
        r == c.radius
        offsets == << <<-r, 0>>, <<-b, -a>>, <<-b, a>>, <<-a, -b>>, <<-a, b>>, <<0, -r>>,
                      <<0, r>>, <<a, -b>>, <<a, b>>, <<b, -a>>, <<b, a>>, <<r, 0>> >>
    IN  [k \in 1..12 |-> [x |-> c.cx + offsets[k][1], z |-> c.cz + offsets[k][2]]]

\* what fitCircle is called with: three points of one circle, and four, and
\* inputs it gives up on
FitSamples ==
    UNION { LET ps == CirclePoints(c)
            IN  { <<ps[t[1]], ps[t[2]], ps[t[3]]>> :
                      t \in { u \in (1..12) \X (1..12) \X (1..12) : u[1] < u[2] /\ u[2] < u[3] } }
          : c \in LatticeCircles }
    \cup { <<[x |-> -5, z |-> 0], [x |-> 0, z |-> 5], [x |-> 5, z |-> 0], [x |-> 0, z |-> -5]>>,
           <<[x |-> 5, z |-> 0], [x |-> 5, z |-> 0], [x |-> 0, z |-> 5]>>,
           <<[x |-> 0, z |-> 0], [x |-> 1, z |-> 1], [x |-> 2, z |-> 2]>>,
           <<[x |-> 0, z |-> 0], [x |-> 1, z |-> 1], [x |-> 3, z |-> 1]>>,
           <<[x |-> 0, z |-> 0], [x |-> 3, z |-> 4]>> }

InitPipe ==
    /\ AppIdle
    /\ DecoderIdle
    /\ InterpIdle
    /\ TriIdle
    /\ DemoIdle
    /\ ppc = "call"
    /\ \/ /\ ppoints \in ProfileSamples
          /\ pexpected \in ExpectedDiameters
          /\ poptions \in OptionSamples
       \/ /\ ppoints \in FitSamples
          /\ pexpected = 10
          /\ poptions = [prevResult |-> null]
    /\ searchIndices = <<>>
    /\ iter = 0
    /\ bestInliers = <<>>
    /\ bestCircle = null
    /\ hypotheses = <<>>
    /\ presult = null
    /\ wresult = null

NextPipe ==
    \/ DetectCall
    \/ \E r1 \in RandomSamples : \E r2 \in RandomSamples : \E r3 \in RandomSamples :
           DetectIter(r1, r2, r3)
    \/ DetectReturn
    \/ WindowDetect
    \/ FitCall

SpecPipe == InitPipe /\ [][NextPipe]_vars

-----------------------------------------------------------------------------
\* Properties of the pipe detector

\* C12: detectPipe returns null whenever fewer than 15 points are supplied,
\* whatever the expected diameter, the options and the random draws; stated of
\* the RANSAC detectPipe and of the detectPipe the application calls
C12_NullBelowFifteenPoints ==
    Len(ppoints) < 15 =>
        /\ ppc = "returned" => IsNull(presult)
        /\ ppc = "window_returned" => IsNull(wresult)

\* the RANSAC detectPipe alone returns null below 15 points
RansacNullBelowFifteenPoints ==
    (ppc = "returned" /\ Len(ppoints) < 15) => IsNull(presult)

\* |radius - expectedDiameter / 2| <= 25% of expectedDiameter / 2
WithinQuarter(radius, expectedDiameter) ==
    RatLeq(RatAbs(RatSub(radius, Rat(expectedDiameter, 2))), Rat(expectedDiameter, 8))

\* C13: every detection detectPipe returns has a radius within 25% of
\* expectedDiameter / 2 of expectedDiameter / 2, the refined radius included
C13_RefinedRadiusWithinQuarter ==
    (ppc = "returned" /\ ~IsNull(presult)) => WithinQuarter(presult.radius, pexpected)

\* the sampled hypothesis that is kept as best has such a radius
HypothesisRadiusWithinQuarter ==
    ~IsNull(bestCircle) => WithinQuarter(bestCircle.radius, pexpected)

\* C14: a detection of the RANSAC detectPipe is built from at least 15
\* inliers, inlierStart and inlierEnd are the least and the greatest inlier
\* index and lie in 0 .. points.length - 1 at least 14 apart, diameter is
\* twice radius; a best hypothesis with fewer than 15 inliers gives null
C14_DetectionFromFifteenInliers ==
    ppc = "returned" =>
        /\ ~IsNull(presult) =>
              /\ Len(bestInliers) >= 15
              /\ 0 <= presult.inlierStart
              /\ presult.inlierStart <= presult.inlierEnd
              /\ presult.inlierEnd <= Len(ppoints) - 1
              /\ \A k \in 1..Len(bestInliers) :
                     /\ presult.inlierStart <= bestInliers[k]
                     /\ bestInliers[k] <= presult.inlierEnd
              /\ \E k \in 1..Len(bestInliers) : bestInliers[k] = presult.inlierStart
              /\ \E k \in 1..Len(bestInliers) : bestInliers[k] = presult.inlierEnd
              /\ presult.inlierEnd - presult.inlierStart >= 14
              /\ presult.diameter = RatAdd(presult.radius, presult.radius)
        /\ Len(bestInliers) < 15 => IsNull(presult)

\* a detection from at least 15 inliers whose span is a proper part of the
\* profile
C14_Witness ==
    /\ ppc = "returned"
    /\ ~IsNull(presult)
    /\ presult.inlierStart > 0
    /\ presult.inlierEnd < Len(ppoints) - 1
    /\ Len(bestInliers) >= 15

\* three points of the sequence that are not on one line
HasNonCollinear(points) ==
    \E i, j, k \in 1..Len(points) :
        (points[j].x - points[i].x) * (points[k].z - points[i].z)
            # (points[j].z - points[i].z) * (points[k].x - points[i].x)

\* C15: for three or more points, not all on one line, that lie exactly on a
\* circle, fitCircle returns the circle's centre and radius and rms 0
C15_CircleFitExactness ==
    ppc = "fit_returned" =>
        \A c \in LatticeCircles :
            (/\ Len(ppoints) >= 3
             /\ \A k \in 1..Len(ppoints) : OnCircle(ppoints[k], c)
             /\ HasNonCollinear(ppoints))
            => presult = [cx |-> RatOf(c.cx), cz |-> RatOf(c.cz),
                          radius |-> RatOf(c.radius), rms |-> RatOf(0)]

\* fitCircle has returned for four points of the circle of radius 5 about the
\* origin, and for three points of the circle of radius 10 about (1, 2)
C15_Witness ==
    /\ ppc = "fit_returned"
    /\ \/ /\ Len(ppoints) = 4
          /\ \A k \in 1..4 : OnCircle(ppoints[k], [cx |-> 0, cz |-> 0, radius |-> 5])
       \/ /\ Len(ppoints) = 3
          /\ ppoints[1] = [x |-> -9, z |-> 2]
          /\ \A k \in 1..3 : OnCircle(ppoints[k], [cx |-> 1, cz |-> 2, radius |-> 10])
    /\ ~IsNull(presult)
    /\ presult.rms = RatOf(0)

\* a previous result with a defined cx was supplied
Tracking == "prevResult" \in DOMAIN poptions /\ "cx" \in DOMAIN poptions.prevResult

\* the indices of the points with x within 1.5 expected radii of the previous
\* centre x: 4 |x - cx| <= 3 expectedDiameter
WindowSet ==
    { i \in 0..(Len(ppoints) - 1) :
        LET cx == poptions.prevResult.cx
        IN  4 * Abs(ppoints[i + 1].x * cx.d - cx.n) <= 3 * pexpected * cx.d }

\* the indices a sequence holds
IndexSet(s) == { s[k] : k \in 1..Len(s) }

\* the sequence holds no index twice
NoRepeat(s) == Cardinality(IndexSet(s)) = Len(s)

NotCollinear(p1, p2, p3) ==
    (p2.x - p1.x) * (p3.z - p1.z) # (p2.z - p1.z) * (p3.x - p1.x)

\* the centre's z is greater than the z of the point
CentreBelow(circle, p) == RatLess(RatOf(p.z), circle.cz)

\* C22: a hypothesis is counted only if its three indices are pairwise
\* distinct, its points are not collinear, its radius is within 25% of the
\* expected radius and its centre's z is greater than the z of all three
\* points
C22_CountedHypotheses ==
    ppc = "ransac" =>
        \A t \in DOMAIN hypotheses :
            ~IsNull(hypotheses[t]) =>
                /\ t[1] # t[2] /\ t[2] # t[3] /\ t[1] # t[3]
                /\ NotCollinear(Pt(ppoints, t[1]), Pt(ppoints, t[2]), Pt(ppoints, t[3]))
                /\ WithinQuarter(hypotheses[t].circle.radius, pexpected)
                /\ CentreBelow(hypotheses[t].circle, Pt(ppoints, t[1]))
                /\ CentreBelow(hypotheses[t].circle, Pt(ppoints, t[2]))
                /\ CentreBelow(hypotheses[t].circle, Pt(ppoints, t[3]))

\* the same with the centre test the source makes: the centre's z is not
\* less than the z of all three points
CountedHypothesesAsCoded ==
    ppc = "ransac" =>
        \A t \in DOMAIN hypotheses :
            ~IsNull(hypotheses[t]) =>
                /\ t[1] # t[2] /\ t[2] # t[3] /\ t[1] # t[3]
                /\ NotCollinear(Pt(ppoints, t[1]), Pt(ppoints, t[2]), Pt(ppoints, t[3]))
                /\ WithinQuarter(hypotheses[t].circle.radius, pexpected)
                /\ \E k \in 1..3 : ~RatLess(hypotheses[t].circle.cz, RatOf(Pt(ppoints, t[k]).z))

\* the inliers of the best hypothesis as points
InlierPoints == [k \in 1..Len(bestInliers) |-> Pt(ppoints, bestInliers[k])]

InliersNotCollinear ==
    (ppc = "returned" /\ Len(bestInliers) >= 15) => HasNonCollinear(InlierPoints)

\* C24: with tracking active every inlier of a returned detection is a point
\* of the window, so are the points at inlierStart and inlierEnd, and the
\* returned circle is the fit of those inliers alone
C24_InliersInsideWindow ==
    (ppc = "returned" /\ ~IsNull(presult) /\ Tracking /\ Cardinality(WindowSet) >= 20) =>
        /\ IndexSet(bestInliers) \subseteq WindowSet
        /\ presult.inlierStart \in WindowSet
        /\ presult.inlierEnd \in WindowSet
        /\ presult.cx = FitCircle(InlierPoints).cx
        /\ presult.cz = FitCircle(InlierPoints).cz
        /\ presult.radius = FitCircle(InlierPoints).radius

\* a detection under tracking that leaves out points of the profile which lie
\* within the tolerance of the best hypothesis
C24_Witness ==
    /\ ppc = "returned"
    /\ ~IsNull(presult)
    /\ Tracking
    /\ Cardinality(WindowSet) >= 20
    /\ \E i \in 0..(Len(ppoints) - 1) :
           /\ i \notin WindowSet
           /\ IsInlier(Pt(ppoints, i), bestCircle, ToleranceOf(poptions))

\* the triples of candidate indices the draws of one iteration can give
DrawnTriples == DOMAIN hypotheses

\* the three draws of an iteration are pairwise distinct
Distinct(t) == t[1] # t[2] /\ t[2] # t[3] /\ t[1] # t[3]

\* what one iteration that drew the triple t does to the best hypothesis:
\* nothing when the draws repeat an index or the hypothesis is not counted or
\* has no more inliers than the best one so far, else it becomes the best
IterationOf(t) ==
    LET h == hypotheses[t]
    IN  /\ ~Distinct(t) => UNCHANGED <<bestInliers, bestCircle>>
        /\ IF ~IsNull(h) /\ Len(h.inliers) > Len(bestInliers)
           THEN bestInliers' = h.inliers /\ bestCircle' = h.circle
           ELSE /\ UNCHANGED <<bestInliers, bestCircle>>
                /\ ~IsNull(h) => Len(h.inliers) <= Len(bestInliers')

-----------------------------------------------------------------------------
(* Further properties of the interpolator *)

\* Math.max(...validPoints.map(p => p.column)) of the call
MaxValidColumn == MaxColumnOf(FilterValid(ipoints))

\* the output slot holds the values of the input point p
Carries(slot, p) ==
    /\ ~slot.hole
    /\ slot.yOffset = p.yOffset
    /\ slot.intensity = p.intensity
    /\ slot.width = p.width

\* the valid points sorted by column that come after the one of column c
LaterValid(c) ==
    { ipoints[j] : j \in { k \in 1..Len(ipoints) : ipoints[k].valid /\ ipoints[k].column > c } }

\* C25: for each valid input point the output at the scaled column
\* round(column * targetResolution / maxValidColumn) carries the point's
\* yOffset, intensity and width, the point of the largest column included
C25_PlacedDirectly ==
    ipc = "returned" =>
        \A i \in 1..Len(ipoints) :
            ipoints[i].valid =>
                LET c == ScaleColumn(ipoints[i].column, itarget, MaxValidColumn)
                IN  /\ ~c.nan
                    /\ c.v + 1 \in 1..Len(interpolated)
                    /\ Carries(interpolated[c.v + 1], ipoints[i])

\* what the code does: a valid point is found at its scaled column when that
\* column is below targetResolution and no valid point of a larger column is
\* scaled to the same one
PlacedDirectlyAsCoded ==
    ipc = "returned" =>
        \A i \in 1..Len(ipoints) :
            ipoints[i].valid =>
                LET c == ScaleColumn(ipoints[i].column, itarget, MaxValidColumn)
                IN  (/\ InRange(c, itarget)
                     /\ \A q \in LaterValid(ipoints[i].column) :
                            ScaleColumn(q.column, itarget, MaxValidColumn) # c)
                        => Carries(interpolated[c.v + 1], ipoints[i])

\* the output column col lies before the first scaled point, or after the last
BeforeFirst(col) ==
    /\ scaledPoints # <<>>
    /\ ~scaledPoints[1].column.nan
    /\ col < scaledPoints[1].column.v

AfterLast(col) ==
    /\ scaledPoints # <<>>
    /\ ~scaledPoints[Len(scaledPoints)].column.nan
    /\ col > scaledPoints[Len(scaledPoints)].column.v

\* the slot holds the values of the scaled point p, held constant
Held(slot, col, p) == slot = Sample(col, p.yOffset, p.intensity, p.width, p.valid)

\* C26: in the returned profile every column before the first scaled point
\* holds the first scaled point's yOffset, intensity, width and valid flag and
\* every column after the last one holds the last scaled point's; the fill
\* between the scaled points writes to no column outside their span
C26_EdgesHeldConstant ==
    /\ ipc = "returned" =>
          \A k \in 1..Len(interpolated) :
              /\ BeforeFirst(k - 1) => Held(interpolated[k], k - 1, scaledPoints[1])
              /\ AfterLast(k - 1) =>
                     Held(interpolated[k], k - 1, scaledPoints[Len(scaledPoints)])
    /\ ipc \in {"fill", "edges"} =>
          \A k \in 1..Len(interpolated) :
              (BeforeFirst(k - 1) \/ AfterLast(k - 1)) => interpolated[k].hole

\* a profile of two scaled points with different values whose column 0 lies
\* before the first of them, next to a column that the curve filled
C26_Witness ==
    /\ ipc = "returned"
    /\ Len(scaledPoints) = 2
    /\ scaledPoints[1].yOffset # scaledPoints[2].yOffset
    /\ BeforeFirst(0)
    /\ Held(interpolated[1], 0, scaledPoints[1])
    /\ \E k \in 1..Len(interpolated) :
           /\ ~interpolated[k].hole
           /\ interpolated[k].yOffset \notin {scaledPoints[1].yOffset, scaledPoints[2].yOffset}

\* the columns the fill loop writes between scaled points i + 1 and i + 2
FilledColumns(i) ==
    IF scaledPoints[i + 1].column.nan \/ scaledPoints[i + 2].column.nan THEN {}
    ELSE { col \in 0..(itarget - 1) :
             /\ col > Max(0, scaledPoints[i + 1].column.v)
             /\ col < Min(itarget - 1, scaledPoints[i + 2].column.v) }

\* C27: a column filled between the consecutive scaled points i and i + 1
\* holds the Hermite value whose tangents are taken from the yOffset of the
\* scaled points i - 1 and i + 2, whatever the order and the validity of the
\* points of the input array
C27_TangentsFromScaledPoints ==
    ipc = "returned" =>
        \A i \in 0..(Len(scaledPoints) - 2) :
            \A col \in FilledColumns(i) :
                interpolated[col + 1].yOffset =
                    FillSample(scaledPoints, scaledPoints, i, col).yOffset

\* what the code does: the tangents read the argument array at the indices of
\* the scaled points
TangentsFromArgumentArray ==
    ipc = "returned" =>
        \A i \in 0..(Len(scaledPoints) - 2) :
            \A col \in FilledColumns(i) :
                interpolated[col + 1].yOffset =
                    FillSample(ipoints, scaledPoints, i, col).yOffset

\* the points of the array are in the order of their columns
SortedByColumn(points) ==
    \A i, j \in 1..Len(points) : i < j => points[i].column <= points[j].column

-----------------------------------------------------------------------------
(* App: the file loading state and its handlers *)

\* App.jsx lines 11-25: DEFAULT_PARAMS, by the fields of the image and the
\* pitch of the laser
DEFAULT_PARAMS == [imageWidth |-> 2048, imageHeight |-> 1152, laserPitch |-> 30]

\* a handleFileLoaded that stores the name and resets the selection before
\* it parses the file
HandleFileLoadedEager(buf, name) ==
    /\ apc # "idle"
    /\ IF ParseBinFile(buf).threw
       THEN /\ apc' = "load_failed"
            /\ fileName' = name
            /\ selectedProfile' = 0
            /\ UNCHANGED <<binData, aparams>>
       ELSE /\ apc' = "loaded"
            /\ binData' = ParseBinFile(buf)
            /\ fileName' = name
            /\ selectedProfile' = 0
            /\ aparams' = [aparams EXCEPT !.imageWidth = ReadHeader(buf).pointsPerProfile]
    /\ UNCHANGED <<decoderVars, interpVars, triVars, demoVars, pipeVars>>

\* lines 41-57: handleFileLoaded(buffer, name); when parseBinFile throws, the
\* catch block logs and alerts and no state is set
HandleFileLoaded(buf, name) ==
    /\ apc # "idle"
    /\ IF ParseBinFile(buf).threw
       THEN /\ apc' = "load_failed"
            /\ UNCHANGED <<binData, fileName, selectedProfile, aparams>>
       ELSE /\ apc' = "loaded"
            /\ binData' = ParseBinFile(buf)
            /\ fileName' = name
            /\ selectedProfile' = 0
            /\ aparams' = [aparams EXCEPT !.imageWidth = ReadHeader(buf).pointsPerProfile]
    /\ UNCHANGED <<decoderVars, interpVars, triVars, demoVars, pipeVars>>

\* lines 59-63: handleClearFile
HandleClearFile ==
    /\ apc # "idle"
    /\ apc' = "cleared"
    /\ binData' = null
    /\ fileName' = null
    /\ selectedProfile' = 0
    /\ UNCHANGED aparams
    /\ UNCHANGED <<decoderVars, interpVars, triVars, demoVars, pipeVars>>

\* line 139: onProfileChange={setSelectedProfile}
SetSelectedProfile(index) ==
    /\ apc # "idle"
    /\ apc' = "selected"
    /\ selectedProfile' = index
    /\ UNCHANGED <<binData, fileName, aparams>>
    /\ UNCHANGED <<decoderVars, interpVars, triVars, demoVars, pipeVars>>

\* lines 117-119: handleParamsChange(newParams)
HandleParamsChange(newParams) ==
    /\ apc # "idle"
    /\ apc' = "params_changed"
    /\ aparams' = newParams
    /\ UNCHANGED <<binData, fileName, selectedProfile>>
    /\ UNCHANGED <<decoderVars, interpVars, triVars, demoVars, pipeVars>>

\* one profile as written to a file, without a comment
PlainProfile(pts) == [lenField |-> 0, bytes |-> <<>>, pts |-> pts]

\* the files offered to the loader: empty, cut inside the header, of another
\* format, with no points per profile, and sound files of 0, 1 and 2 profiles
FileSamples ==
    { <<>>,
      SubSeq(EncodeHeader(H(2, 1, 12, 1, 0, 0)), 1, 11),
      EncodeHeader(H(3, 1, 12, 1, 0, 0)),
      EncodeHeader(H(2, 1, 12, 0, 0, 0)),
      EncodeHeader(H(2, 1, 12, 1, 0, 0)),
      EncodeHeader(H(2, 1, 12, 1, 0, 0))
          \o EncodeProfile(PlainProfile(<<[yOffsetRaw |-> 16, intensity |-> 7, width |-> 1]>>)),
      EncodeHeader(H(2, 1, 12, 2, 0, 0))
          \o EncodeProfile(PlainProfile(<<[yOffsetRaw |-> 16, intensity |-> 7, width |-> 1],
                                          [yOffsetRaw |-> 0, intensity |-> 0, width |-> 0]>>))
          \o EncodeProfile(PlainProfile(<<[yOffsetRaw |-> 65535, intensity |-> 255, width |-> 255],
                                          [yOffsetRaw |-> 16, intensity |-> 7, width |-> 1]>>)) }

\* the names of the files, each a String value apart from null
FileNames == { [name |-> "a.bin"], [name |-> "b.bin"] }

\* the indices the profile selector can hand to setSelectedProfile
ProfileChoices == 0..2

\* the values the parameter panel can hand to handleParamsChange
ParamSamples ==
    { DEFAULT_PARAMS, [imageWidth |-> 1024, imageHeight |-> 1152, laserPitch |-> 45] }

\* lines 30-37: the state of App when it is mounted
InitApp ==
    /\ DecoderIdle
    /\ InterpIdle
    /\ TriIdle
    /\ DemoIdle
    /\ PipeIdle
    /\ apc = "mounted"
    /\ binData = null
    /\ fileName = null
    /\ selectedProfile = 0
    /\ aparams = DEFAULT_PARAMS

NextApp ==
    \/ \E buf \in FileSamples : \E name \in FileNames : HandleFileLoaded(buf, name)
    \/ HandleClearFile
    \/ \E index \in ProfileChoices : SetSelectedProfile(index)
    \/ \E newParams \in ParamSamples : HandleParamsChange(newParams)

SpecApp == InitApp /\ [][NextApp]_vars

\* C30: a load that fails changes none of binData, fileName, selectedProfile
\* and params, and after a load that succeeds or a clear selectedProfile is
\* 0, whatever loads, clears and selections came before
C30_FailedLoadKeepsState ==
    [][/\ apc' = "load_failed" => UNCHANGED <<binData, fileName, selectedProfile, aparams>>
       /\ apc' \in {"loaded", "cleared"} => selectedProfile' = 0]_vars

\* a load has failed while a file is loaded, its second profile is selected
\* and imageWidth is the pointsPerProfile of that file
C30_Witness ==
    /\ apc = "load_failed"
    /\ ~IsNull(binData)
    /\ binData.profileCount = 2
    /\ fileName = [name |-> "b.bin"]
    /\ selectedProfile = 1
    /\ aparams.imageWidth = 2

====
